---- MODULE Spec2Model ----
(***************************************************************************)
(* A model of jolt-go: the JOLT binary codec (jolt/codec_binary.go) with    *)
(* the process-wide PreserveComments flag, the frame transport              *)
(* (jolt/stream.go), the comment-stripping preprocessor StripJSONComments,  *)
(* the JSON compatibility functions and the JOLT-SEC wrapper                *)
(* (EncryptJOLT / DecryptJOLT).  Each component has its own specification   *)
(* over the shared variables; the variables of the other components stay    *)
(* at their initial values.                                                 *)
(*                                                                          *)
(* Go values are modelled as records with a variant field t.  Byte strings  *)
(* are sequences of 0..255.  A Go map is modelled by the sequence of its    *)
(* entries in the order one `range` over it happens to visit them; the      *)
(* value universes below hold every such order.  An Int carries the         *)
(* address p of its *big.Int, because Go compares Int map keys by pointer.  *)
(***************************************************************************)
EXTENDS Integers, Sequences, FiniteSets, TLC

VARIABLES
    PreserveComments,   \* the package variable jolt.PreserveComments
    pc,                 \* "idle", "encoded" or "decoded": the last codec call
    arg,                \* the argument of the last EncodeBinary call
    out,                \* what that call returned: [err, bytes]
    encPC,              \* PreserveComments during that call
    wire,               \* the argument of the last DecodeBinary call
    res,                \* what that call returned: [err, val]
    decPC,              \* PreserveComments during that call
    own                 \* TRUE when wire is the output of the last encode

\* the frame transport: one stream, its writer and its bufio.Reader
VARIABLES
    stream,             \* every byte written to the stream so far
    rd,                 \* how many of them the reader has consumed
    written,            \* the payloads of the WriteFrame calls, in order
    got,                \* the buffers the ReadFrame calls returned, in order
    ferr                \* the error of the last ReadFrame call, "" for nil

\* one run of StripJSONComments
VARIABLES
    stripIn,            \* in
    si,                 \* the loop index i, counted from 1
    state,              \* state
    stripOut,           \* out
    stripDone           \* TRUE once the function has returned

\* the JSON compatibility functions
VARIABLES
    jpc,                \* "idle", "marshalled" or "parsed"
    jarg,               \* the argument of the last MarshalJSONCompat call
    jindent,            \* its indent argument
    jtext,              \* what it returned: [err, bytes]
    jres                \* what UnmarshalJSONWithComments stored: [err, val]

\* JOLT-SEC
VARIABLES
    spc,                \* "idle", "sealed", "opened"; "sealedRaw", "openedRaw"
    sealed,             \* the Seal calls made so far: what an Open accepts
    drawn,              \* how many nonces have been read from rand.Reader
    encArgs,            \* the arguments of the last EncryptJOLT call
    blob,               \* what it returned: [err, bytes]
    decIn,              \* the arguments of the last DecryptJOLT call
    decOut              \* what it returned: [err, val, hdr] and the calls made

\* goroutines that call EncodeBinary while another one writes the flag
VARIABLES
    thr,                \* per goroutine: where its call stands and what it holds
    nflips              \* how often the flag was written

\* EncodeBinary called with a native Go number
VARIABLES
    arch,               \* the architecture the program was built for
    numPC,              \* "idle" or "done"
    numIn,              \* the native number passed
    numOut              \* what the call returned: [err, bytes]

\* the REST service (cmd/restapi): one POST /orders at a time
VARIABLES
    keyring,            \* the package variable kr: <<>> for nil
    store,              \* the store's maps: the set of [id, meta, jb] held
    req,                \* the last request: [method, ct, body, accept]
    resp                \* how it was served

codecVars == <<PreserveComments, pc, arg, out, encPC, wire, res, decPC, own>>
frameVars == <<stream, rd, written, got, ferr>>
stripVars == <<stripIn, si, state, stripOut, stripDone>>
jsonVars == <<jpc, jarg, jindent, jtext, jres>>
secVars == <<spc, sealed, drawn, encArgs, blob, decIn, decOut>>
concVars == <<thr, nflips>>
numVars == <<arch, numPC, numIn, numOut>>
restVars == <<keyring, store, req, resp>>

vars == <<codecVars, frameVars, stripVars, jsonVars, secVars, concVars, numVars,
          restVars>>

----------------------------------------------------------------------------
(* Bounds of the model *)

\* DefaultLimits.MaxDepth, scaled down from the source's 1024 so that documents
\* one and two levels past the limit can be built and decoded; every use of
\* the limit below is relative to this definition.
MaxDepth == 4

\* the longest Arr, Obj, Set or Map the value universe holds
MaxElems == 3

----------------------------------------------------------------------------
(* Wire tags *)

tagNull == 0
tagF == 1
tagT == 2
tagInt == 3
tagDec == 4
tagStr == 5
tagBin == 6
tagArr == 7
tagObj == 8
tagTS == 9
tagDate == 10
tagTime == 11
tagSet == 12
tagMap == 13
tagUUID == 14
tagLink == 15
tagAnnot == 16
tagEnv == 17

\* DefaultLimits.MaxBytes = 64 << 20
MaxBytes == 67108864

----------------------------------------------------------------------------
(* Go values *)

VNull == [t |-> "Null"]
VBool(b) == [t |-> "Bool", b |-> b]
VStr(s) == [t |-> "Str", s |-> s]
VInt(n, p) == [t |-> "Int", n |-> n, p |-> p]
VDec(neg, exp, coeff) == [t |-> "Dec", neg |-> neg, exp |-> exp, coeff |-> coeff]
VBin(s) == [t |-> "Bin", s |-> s]
VTS(s) == [t |-> "TS", s |-> s]
VDate(s) == [t |-> "Date", s |-> s]
VTime(s) == [t |-> "Time", s |-> s]
VUUID(u) == [t |-> "UUID", u |-> u]
VLink(s) == [t |-> "Link", s |-> s]
VAnnot(s) == [t |-> "Annot", s |-> s]
VArr(items) == [t |-> "Arr", items |-> items]
VObj(kv) == [t |-> "Obj", kv |-> kv]
VSet(items) == [t |-> "Set", items |-> items]
VMap(mkv) == [t |-> "Map", mkv |-> mkv]
\* a []string (Meta.Features); isnil distinguishes the nil slice
VStrings(isnil, strs) == [t |-> "Strings", isnil |-> isnil, strs |-> strs]
VMeta(type, schema, version, created, features, sig) ==
    [Type |-> type, Schema |-> schema, Version |-> version,
     Created |-> created, Features |-> features, Sig |-> sig]
VEnv(meta, body) == [t |-> "Env", meta |-> meta, body |-> body]

KV(k, v) == [key |-> k, val |-> v]
MKV(k, v) == [mk |-> k, mv |-> v]

\* "$comment"
CommentKey == <<36, 99, 111, 109, 109, 101, 110, 116>>

----------------------------------------------------------------------------
(* Byte-level primitives *)

Min(S) == CHOOSE x \in S : \A y \in S : x <= y

\* bytes.Compare, and Go's < on strings
BytesCompare(a, b) ==
    LET n == IF Len(a) < Len(b) THEN Len(a) ELSE Len(b)
        diffs == {i \in 1..n : a[i] # b[i]}
    IN IF diffs = {}
       THEN IF Len(a) < Len(b) THEN -1 ELSE IF Len(a) > Len(b) THEN 1 ELSE 0
       ELSE IF a[Min(diffs)] < b[Min(diffs)] THEN -1 ELSE 1

RECURSIVE Concat(_)
Concat(parts) ==
    IF parts = <<>> THEN <<>> ELSE Head(parts) \o Concat(Tail(parts))

\* the one element of a set; {F(x) : x \in {e}} computes e once before F
\* uses it
The(S) == CHOOSE r \in S : TRUE

\* binary.PutUvarint
RECURSIVE putUvarint(_)
putUvarint(x) ==
    IF x < 128 THEN <<x>> ELSE <<(x % 128) + 128>> \o putUvarint(x \div 128)

\* (i << 1) ^ (i >> 63) on int64, then uvarint
putZigZag(i) == putUvarint(IF i >= 0 THEN 2 * i ELSE -2 * i - 1)

writeBytes(b) == putUvarint(Len(b)) \o b

writeString(s) == writeBytes(s)

\* big.Int.Bytes: the big-endian magnitude without leading zero bytes
RECURSIVE BigBytes(_)
BigBytes(n) ==
    IF n = 0 THEN <<>> ELSE BigBytes(n \div 256) \o <<n % 256>>

Abs(n) == IF n < 0 THEN -n ELSE n

\* big.Int.SetBytes: the value of a big-endian magnitude
RECURSIVE BigSetBytes(_)
BigSetBytes(m) ==
    IF m = <<>> THEN 0 ELSE 256 * BigSetBytes(SubSeq(m, 1, Len(m) - 1)) + m[Len(m)]

----------------------------------------------------------------------------
(* Sorting.  sort.Strings and sort.Slice run insertion sort on slices of   *)
(* at most 12 elements, which is every slice of this model.                *)

\* one pass of insertionSort: x moves left while it is less than its left
\* neighbour; the elements are records with the sort key in field sk
RECURSIVE insertLeft(_, _)
insertLeft(s, x) ==
    IF s = <<>> THEN <<x>>
    ELSE IF BytesCompare(x.sk, s[Len(s)].sk) < 0
         THEN insertLeft(SubSeq(s, 1, Len(s) - 1), x) \o <<s[Len(s)]>>
         ELSE s \o <<x>>

RECURSIVE insertionSort(_)
insertionSort(s) ==
    IF s = <<>> THEN <<>>
    ELSE insertLeft(insertionSort(SubSeq(s, 1, Len(s) - 1)), s[Len(s)])

\* sortStrings with the sort left out: the keys stay in map iteration order
sortStringsSkipped(ks) == ks

\* sort.Strings(ks)
sortStrings(ks) ==
    LET sorted == insertionSort([i \in 1..Len(ks) |-> [sk |-> ks[i]]])
    IN [i \in 1..Len(ks) |-> sorted[i].sk]

\* sortSet with the sort left out: the elements stay in slice order
sortSetSkipped(tmp) == tmp

\* sort.Slice(tmp, bytes.Compare(tmp[i], tmp[j]) < 0)
sortSet(tmp) ==
    LET sorted == insertionSort([i \in 1..Len(tmp) |-> [sk |-> tmp[i]]])
    IN [i \in 1..Len(tmp) |-> sorted[i].sk]

\* sort.Slice(kvs, bytes.Compare(kvs[i].k, kvs[j].k) < 0)
sortKvs(kvs) ==
    LET sorted == insertionSort([i \in 1..Len(kvs) |->
                                    [sk |-> kvs[i].k, v |-> kvs[i].v]])
    IN [i \in 1..Len(kvs) |-> [k |-> sorted[i].sk, v |-> sorted[i].v]]

----------------------------------------------------------------------------
(* EncodeBinary *)

\* obj[k] of a map[string]any
ObjGet(kv, k) == kv[CHOOSE i \in 1..Len(kv) : kv[i].key = k].val

\* encStrip with the filter left out: "$comment" is kept whatever the flag says
encStripKeepsAll(kv, preserve) == kv

\* the copy of the object the encoder emits: without "$comment" unless
\* PreserveComments
encStrip(kv, preserve) ==
    IF preserve THEN kv
    ELSE SelectSeq(kv, LAMBDA e : e.key # CommentKey)

\* the map literal the Envelope case builds from Meta
metaMap(m) ==
    <<KV(<<116, 121, 112, 101>>, VStr(m.Type)),
      KV(<<115, 99, 104, 101, 109, 97>>, VStr(m.Schema)),
      KV(<<118, 101, 114, 115, 105, 111, 110>>, VStr(m.Version)),
      KV(<<102, 101, 97, 116, 117, 114, 101, 115>>, m.Features)>>
    \o (IF m.Created.t # "Null"
        THEN <<KV(<<99, 114, 101, 97, 116, 101, 100, 65, 116>>, m.Created)>>
        ELSE <<>>)
    \o (IF m.Sig.t # "Null" THEN <<KV(<<115, 105, 103>>, m.Sig)>> ELSE <<>>)

EncErr(e) == [err |-> e, bytes |-> <<>>]
EncOk(b) == [err |-> "", bytes |-> b]

\* Native Go numbers.  The widths are scaled: the signed and unsigned integer
\* types have IntBits bits instead of 64, and a float is the exact rational
\* it holds, an integer f or num/den with den a power of two and num odd.
IntBits == 16

RECURSIVE Pow(_, _)
Pow(b, k) == IF k = 0 THEN 1 ELSE b * Pow(b, k - 1)

MaxInt64 == Pow(2, IntBits - 1) - 1
MinInt64 == -Pow(2, IntBits - 1)
MaxUint64 == Pow(2, IntBits) - 1

VFrac(num, den) == [t |-> "Frac", num |-> num, den |-> den]
VInt64(n) == [t |-> "Int64", n |-> n]
VUint64(n) == [t |-> "Uint64", n |-> n]

\* the builds: on amd64 a float that does not fit converts to the minimum,
\* on arm64 to the nearest bound
Archs == {"amd64", "arm64"}

\* int64(x) for an integer-valued float64 x
int64OfFloat(x) ==
    IF x >= MinInt64 /\ x <= MaxInt64 THEN x
    ELSE IF arch = "amd64" THEN MinInt64
    ELSE IF x > 0 THEN MaxInt64 ELSE MinInt64

\* the decimal digits of n >= 0 (strconv.FormatUint(n, 10))
RECURSIVE digitsOf(_)
digitsOf(n) ==
    IF n < 10 THEN <<48 + n>> ELSE digitsOf(n \div 10) \o <<48 + (n % 10)>>

zeros(k) == [j \in 1..k |-> 48]

\* strconv.FormatFloat(x, 'f', -1, 64) for x = num/den, den = 2^k, num odd:
\* the shortest digits that read back as x are those of the exact expansion
\* |num| * 5^k / 10^k, which ends in 5
formatFloat(num, den) ==
    LET k == CHOOSE j \in 1..IntBits : Pow(2, j) = den
        c == (IF num < 0 THEN -num ELSE num) * Pow(5, k)
        ds == digitsOf(c)
        padded == IF Len(ds) > k THEN ds ELSE zeros(k + 1 - Len(ds)) \o ds
    IN (IF num < 0 THEN <<45>> ELSE <<>>)
       \o SubSeq(padded, 1, Len(padded) - k) \o <<46>>
       \o SubSeq(padded, Len(padded) - k + 1, Len(padded))

\* the digits and the point of a decimal numeral from index i on:
\* [ok, coeff, frac, digits], frac the number of digits after the point
RECURSIVE scanDecimal(_, _, _, _, _, _)
scanDecimal(s, i, coeff, frac, dot, digits) ==
    IF i > Len(s) THEN [ok |-> digits > 0, coeff |-> coeff, frac |-> frac]
    ELSE IF s[i] = 46
         THEN IF dot THEN [ok |-> FALSE, coeff |-> 0, frac |-> 0]
              ELSE scanDecimal(s, i + 1, coeff, frac, TRUE, digits)
    ELSE IF s[i] >= 48 /\ s[i] <= 57
         THEN scanDecimal(s, i + 1, 10 * coeff + (s[i] - 48),
                          IF dot THEN frac + 1 ELSE frac, dot, digits + 1)
    ELSE [ok |-> FALSE, coeff |-> 0, frac |-> 0]

\* DecFromString (apd's SetString) on a numeral without exponent: the
\* coefficient is the digits read as one integer, the exponent minus the
\* number of digits after the point
DecFromString(s) ==
    LET neg == s # <<>> /\ s[1] = 45
        r == scanDecimal(s, IF s # <<>> /\ s[1] \in {43, 45} THEN 2 ELSE 1, 0, 0, FALSE, 0)
    IN IF ~r.ok THEN [err |-> "Syntax", val |-> [t |-> "Null"]]
       ELSE [err |-> "", val |-> [t |-> "Dec", neg |-> neg, exp |-> -r.frac,
                                   coeff |-> r.coeff]]

RECURSIVE encodeAny(_, _, _)
RECURSIVE encodeEach(_, _, _)

\* the loops `for ... { if err := encodeAny(...); err != nil { return err } }`:
\* the encodings of the items in order, or the first error
encodeEach(items, depth, preserve) ==
    IF items = <<>> THEN [err |-> "", parts |-> <<>>]
    ELSE LET h == encodeAny(Head(items), depth, preserve)
         IN IF h.err # "" THEN [err |-> h.err, parts |-> <<>>]
            ELSE LET r == encodeEach(Tail(items), depth, preserve)
                 IN IF r.err # "" THEN r
                    ELSE [err |-> "", parts |-> <<h.bytes>> \o r.parts]

encodeAny(v, depth, preserve) ==
    IF depth > MaxDepth THEN EncErr("TooDeep")
    ELSE CASE v.t = "Null" -> EncOk(<<tagNull>>)
      [] v.t = "Bool" -> EncOk(IF v.b THEN <<tagT>> ELSE <<tagF>>)
      [] v.t = "Str" -> EncOk(<<tagStr>> \o writeString(v.s))
      [] v.t = "Float" ->
            \* case float64, float32 with math.Trunc(x) == x
            encodeAny([t |-> "Int", n |-> int64OfFloat(v.f), p |-> 0], depth, preserve)
      [] v.t = "Frac" ->
            LET d == DecFromString(formatFloat(v.num, v.den))
            IN IF d.err # "" THEN EncErr(d.err) ELSE encodeAny(d.val, depth, preserve)
      [] v.t = "Int64" ->
            encodeAny([t |-> "Int", n |-> v.n, p |-> 0], depth, preserve)
      [] v.t = "Uint64" ->
            IF v.n <= MaxInt64
            THEN encodeAny([t |-> "Int", n |-> v.n, p |-> 0], depth, preserve)
            ELSE LET d == DecFromString(digitsOf(v.n))
                 IN IF d.err # "" THEN EncErr(d.err)
                    ELSE encodeAny(d.val, depth, preserve)
      [] v.t = "Int" ->
            LET sign == IF v.n < 0 THEN 1 ELSE 0
                mag == BigBytes(Abs(v.n))
            IN EncOk(<<tagInt>> \o putUvarint(Len(mag) + 1) \o <<sign>> \o mag)
      [] v.t = "Dec" ->
            EncOk(<<tagDec>> \o <<IF v.neg THEN 1 ELSE 0>> \o putZigZag(v.exp)
                  \o writeBytes(BigBytes(v.coeff)))
      [] v.t = "Bin" -> EncOk(<<tagBin>> \o writeBytes(v.s))
      [] v.t = "TS" -> EncOk(<<tagTS>> \o writeString(v.s))
      [] v.t = "Date" -> EncOk(<<tagDate>> \o writeString(v.s))
      [] v.t = "Time" -> EncOk(<<tagTime>> \o writeString(v.s))
      [] v.t = "UUID" -> EncOk(<<tagUUID>> \o v.u)
      [] v.t = "Link" -> EncOk(<<tagLink>> \o writeString(v.s))
      [] v.t = "Annot" -> EncOk(<<tagAnnot>> \o writeString(v.s))
      [] v.t = "Arr" ->
            LET r == encodeEach(v.items, depth + 1, preserve)
            IN IF r.err # "" THEN EncErr(r.err)
               ELSE EncOk(<<tagArr>> \o putUvarint(Len(v.items)) \o Concat(r.parts))
      [] v.t = "Obj" ->
            LET obj == encStrip(v.kv, preserve)
                ks == sortStrings([i \in 1..Len(obj) |-> obj[i].key])
                r == encodeEach([i \in 1..Len(ks) |-> ObjGet(obj, ks[i])],
                                depth + 1, preserve)
            IN IF r.err # "" THEN EncErr(r.err)
               ELSE EncOk(<<tagObj>> \o putUvarint(Len(ks))
                          \o Concat([i \in 1..Len(ks) |->
                                        writeString(ks[i]) \o r.parts[i]]))
      [] v.t = "Set" ->
            LET r == encodeEach(v.items, depth + 1, preserve)
                tmp == sortSet(r.parts)
            IN IF r.err # "" THEN EncErr(r.err)
               ELSE EncOk(<<tagSet>> \o putUvarint(Len(tmp)) \o Concat(tmp))
      [] v.t = "Map" ->
            \* k and v of each entry alternate, as in the loop body
            LET r == encodeEach([i \in 1..2 * Len(v.mkv) |->
                                   IF i % 2 = 1 THEN v.mkv[(i + 1) \div 2].mk
                                   ELSE v.mkv[i \div 2].mv],
                                depth + 1, preserve)
                kvs == sortKvs([i \in 1..Len(v.mkv) |->
                                   [k |-> r.parts[2 * i - 1], v |-> r.parts[2 * i]]])
            IN IF r.err # "" THEN EncErr(r.err)
               ELSE EncOk(<<tagMap>> \o putUvarint(Len(kvs))
                          \o Concat([i \in 1..Len(kvs) |-> kvs[i].k \o kvs[i].v]))
      [] v.t = "Env" ->
            LET m == encodeAny(VObj(metaMap(v.meta)), depth + 1, preserve)
                b == encodeAny(v.body, depth + 1, preserve)
            IN IF m.err # "" THEN EncErr(m.err)
               ELSE IF b.err # "" THEN EncErr(b.err)
               ELSE EncOk(<<tagEnv>> \o m.bytes \o b.bytes)
      [] v.t = "Strings" ->
            \* default case: json.Marshal, json.Unmarshal into any, encode that
            LET g == IF v.isnil THEN VNull
                     ELSE VArr([i \in 1..Len(v.strs) |-> VStr(v.strs[i])])
            IN encodeAny(g, depth + 1, preserve)

EncodeBinary(v, preserve) == encodeAny(v, 0, preserve)

----------------------------------------------------------------------------
(* EncodeBinary as one goroutine runs it while others run.  The encoder    *)
(* shares two things with the rest of the program: the package variable    *)
(* PreserveComments, which encodeAny reads once for every map[string]any   *)
(* it meets, and the argument, which the caller still holds.  flags is the *)
(* sequence of values the reads of one call returned, in the order of the  *)
(* reads; the result tells what the call returned, which reads are left,   *)
(* whether the call needs a read that flags does not hold (short), and the *)
(* argument as the call left it (after).                                   *)

\* the map[string]any case with the deletion made on the caller's map
objCaseInPlace(kv, preserve) ==
    [obj |-> IF preserve THEN kv ELSE SelectSeq(kv, LAMBDA e : e.key # CommentKey),
     x |-> IF preserve THEN kv ELSE SelectSeq(kv, LAMBDA e : e.key # CommentKey)]

\* the map[string]any case up to the sort: obj is the caller's map x itself
\* under PreserveComments and else a map made by the call, which the loop
\* fills; x is what the caller's map holds afterwards
objCase(kv, preserve) ==
    [obj |-> encStrip(kv, preserve), x |-> kv]

RaceRes(e, b, rest, short, after) ==
    [err |-> e, bytes |-> b, rest |-> rest, short |-> short, after |-> after]

RECURSIVE encodeRace(_, _, _)
RECURSIVE encodeRaceEach(_, _, _)

\* the loops over the elements: [err, parts, rest, short, afters]; the
\* elements after a failing one are not visited
encodeRaceEach(items, depth, flags) ==
    IF items = <<>>
    THEN [err |-> "", parts |-> <<>>, rest |-> flags, short |-> FALSE, afters |-> <<>>]
    ELSE The({IF h.short \/ h.err # ""
              THEN [err |-> h.err, parts |-> <<>>, rest |-> h.rest, short |-> h.short,
                    afters |-> <<h.after>> \o Tail(items)]
              ELSE The({[err |-> r.err,
                         parts |-> IF r.short \/ r.err # "" THEN <<>>
                                   ELSE <<h.bytes>> \o r.parts,
                         rest |-> r.rest, short |-> r.short,
                         afters |-> <<h.after>> \o r.afters] :
                        r \in {encodeRaceEach(Tail(items), depth, h.rest)}}) :
              h \in {encodeRace(Head(items), depth, flags)}})

encodeRace(v, depth, flags) ==
    IF depth > MaxDepth THEN RaceRes("TooDeep", <<>>, flags, FALSE, v)
    ELSE CASE v.t = "Arr" ->
            The({RaceRes(r.err,
                         IF r.short \/ r.err # "" THEN <<>>
                         ELSE <<tagArr>> \o putUvarint(Len(v.items)) \o Concat(r.parts),
                         r.rest, r.short, VArr(r.afters)) :
                 r \in {encodeRaceEach(v.items, depth + 1, flags)}})
      [] v.t = "Obj" ->
            IF flags = <<>> THEN RaceRes("", <<>>, flags, TRUE, v)
            ELSE The({The({The({
                    RaceRes(r.err,
                            IF r.short \/ r.err # "" THEN <<>>
                            ELSE <<tagObj>> \o putUvarint(Len(ks))
                                 \o Concat([i \in 1..Len(ks) |->
                                               writeString(ks[i]) \o r.parts[i]]),
                            r.rest, r.short,
                            \* the values are shared between obj and x
                            VObj([i \in 1..Len(c.x) |->
                                    IF \E j \in 1..Len(ks) : ks[j] = c.x[i].key
                                    THEN KV(c.x[i].key,
                                            r.afters[CHOOSE j \in 1..Len(ks) :
                                                         ks[j] = c.x[i].key])
                                    ELSE c.x[i]])) :
                    r \in {encodeRaceEach([i \in 1..Len(ks) |-> ObjGet(c.obj, ks[i])],
                                          depth + 1, Tail(flags))}}) :
                 ks \in {sortStrings([i \in 1..Len(c.obj) |-> c.obj[i].key])}}) :
                 c \in {objCase(v.kv, Head(flags))}})
      [] v.t = "Set" ->
            The({RaceRes(r.err,
                         IF r.short \/ r.err # "" THEN <<>>
                         ELSE <<tagSet>> \o putUvarint(Len(r.parts))
                              \o Concat(sortSet(r.parts)),
                         r.rest, r.short, VSet(r.afters)) :
                 r \in {encodeRaceEach(v.items, depth + 1, flags)}})
      [] v.t = "Map" ->
            The({RaceRes(r.err,
                         IF r.short \/ r.err # "" THEN <<>>
                         ELSE LET kvs == sortKvs([i \in 1..Len(v.mkv) |->
                                             [k |-> r.parts[2 * i - 1],
                                              v |-> r.parts[2 * i]]])
                              IN <<tagMap>> \o putUvarint(Len(kvs))
                                 \o Concat([i \in 1..Len(kvs) |-> kvs[i].k \o kvs[i].v]),
                         r.rest, r.short,
                         VMap([i \in 1..Len(v.mkv) |->
                                  MKV(r.afters[2 * i - 1], r.afters[2 * i])])) :
                 r \in {encodeRaceEach([i \in 1..2 * Len(v.mkv) |->
                                          IF i % 2 = 1 THEN v.mkv[(i + 1) \div 2].mk
                                          ELSE v.mkv[i \div 2].mv],
                                       depth + 1, flags)}})
      [] v.t = "Env" ->
            \* the meta map is made by the call
            The({IF m.short \/ m.err # ""
                 THEN RaceRes(m.err, <<>>, m.rest, m.short, v)
                 ELSE The({RaceRes(b.err,
                                   IF b.short \/ b.err # "" THEN <<>>
                                   ELSE <<tagEnv>> \o m.bytes \o b.bytes,
                                   b.rest, b.short, VEnv(v.meta, b.after)) :
                           b \in {encodeRace(v.body, depth + 1, m.rest)}}) :
                 m \in {encodeRace(VObj(metaMap(v.meta)), depth + 1, flags)}})
      [] OTHER ->
            \* the cases that meet no map[string]any and write nothing
            The({RaceRes(e.err, e.bytes, flags, FALSE, v) :
                 e \in {encodeAny(v, depth, FALSE)}})

----------------------------------------------------------------------------
(* DecodeBinary.  The reader is the pair (b, pos): pos is the index of the  *)
(* next unread byte of b.                                                   *)

\* binary.ReadUvarint: at most ten bytes, seven bits each, low group first
RECURSIVE readUvarintFrom(_, _, _, _, _)
readUvarintFrom(b, pos, i, x, mult) ==
    IF i = 10 THEN [err |-> "Overflow", x |-> 0, pos |-> pos]
    ELSE IF pos > Len(b)
         THEN [err |-> IF i > 0 THEN "UnexpectedEOF" ELSE "EOF", x |-> 0, pos |-> pos]
    ELSE IF b[pos] < 128
         THEN IF i = 9 /\ b[pos] > 1
              THEN [err |-> "Overflow", x |-> 0, pos |-> pos + 1]
              ELSE [err |-> "", x |-> x + b[pos] * mult, pos |-> pos + 1]
    ELSE readUvarintFrom(b, pos + 1, i + 1, x + (b[pos] - 128) * mult, mult * 128)

readUvarint(b, pos) == readUvarintFrom(b, pos, 0, 0, 1)

\* int64((u >> 1) ^ uint64((int64(u&1)<<63)>>63))
readZigZag(b, pos) ==
    LET u == readUvarint(b, pos)
    IN IF u.err # "" THEN u
       ELSE [err |-> "", pos |-> u.pos,
             x |-> IF u.x % 2 = 0 THEN u.x \div 2 ELSE -((u.x + 1) \div 2)]

\* buf := make([]byte, n); n times ReadByte, the first error returned
readN(b, pos, n) ==
    IF pos + n - 1 > Len(b) THEN [err |-> "EOF", bytes |-> <<>>, pos |-> Len(b) + 1]
    ELSE [err |-> "", bytes |-> SubSeq(b, pos, pos + n - 1), pos |-> pos + n]

DecErr(e) == [err |-> e, val |-> VNull, pos |-> 0]
DecOk(v, pos) == [err |-> "", val |-> v, pos |-> pos]

ObjHas(kv, k) == \E i \in 1..Len(kv) : kv[i].key = k

\* obj[k] = val on a map[string]any
ObjPut(kv, k, val) ==
    IF ObjHas(kv, k)
    THEN [i \in 1..Len(kv) |-> IF kv[i].key = k THEN KV(k, val) ELSE kv[i]]
    ELSE Append(kv, KV(k, val))

\* whether Go can hash a value of this dynamic type as a map[any]any key
Hashable(k) == k.t \notin {"Bin", "Arr", "Obj", "Set", "Map", "Env", "Strings"}

\* Go's == on two hashable interface values: an Int is the pointer it holds
GoEq(a, b) ==
    IF a.t = "Int" /\ b.t = "Int" THEN a.p = b.p ELSE a = b

\* out[k] = v on a Map
MapPut(mkv, k, v) ==
    IF \E i \in 1..Len(mkv) : GoEq(mkv[i].mk, k)
    THEN [i \in 1..Len(mkv) |-> IF GoEq(mkv[i].mk, k) THEN MKV(mkv[i].mk, v) ELSE mkv[i]]
    ELSE Append(mkv, MKV(k, v))

\* whether the decoder stores the entry it has just read under key k
decKeeps(k, preserve) == ~(k = CommentKey /\ ~preserve)

\* the part of the tagEnv case that fills Meta from the decoded meta object
metaFrom(m) ==
    LET str(k) == IF ObjHas(m, k) /\ ObjGet(m, k).t = "Str" THEN ObjGet(m, k).s ELSE <<>>
        fk == <<102, 101, 97, 116, 117, 114, 101, 115>>
        ck == <<99, 114, 101, 97, 116, 101, 100, 65, 116>>
        vk == <<118, 97, 108, 117, 101>>
        feats == IF ObjHas(m, fk) /\ ObjGet(m, fk).t = "Arr"
                 THEN LET ss == SelectSeq(ObjGet(m, fk).items, LAMBDA it : it.t = "Str")
                      IN VStrings(FALSE, [i \in 1..Len(ss) |-> ss[i].s])
                 ELSE VStrings(TRUE, <<>>)
        created == IF ObjHas(m, ck) /\ ObjGet(m, ck).t = "TS" THEN VTS(ObjGet(m, ck).s)
                   ELSE IF ObjHas(m, ck) /\ ObjGet(m, ck).t = "Obj"
                           /\ ObjHas(ObjGet(m, ck).kv, vk)
                           /\ ObjGet(ObjGet(m, ck).kv, vk).t = "Str"
                        THEN VTS(ObjGet(ObjGet(m, ck).kv, vk).s)
                        ELSE VNull
    IN VMeta(str(<<116, 121, 112, 101>>), str(<<115, 99, 104, 101, 109, 97>>),
             str(<<118, 101, 114, 115, 105, 111, 110>>), created, feats, VNull)

RECURSIVE decodeAny(_, _, _, _)
RECURSIVE decodeItems(_, _, _, _, _)
RECURSIVE decodeObjEntries(_, _, _, _, _, _)
RECURSIVE decodeMapEntries(_, _, _, _, _, _)

\* the loops of the tagArr and tagSet cases: [err, vals, pos]
decodeItems(b, pos, n, depth, preserve) ==
    IF n = 0 THEN [err |-> "", vals |-> <<>>, pos |-> pos]
    ELSE LET h == decodeAny(b, pos, depth, preserve)
         IN IF h.err # "" THEN [err |-> h.err, vals |-> <<>>, pos |-> 0]
            ELSE LET r == decodeItems(b, h.pos, n - 1, depth, preserve)
                 IN IF r.err # "" THEN r
                    ELSE [err |-> "", vals |-> <<h.val>> \o r.vals, pos |-> r.pos]

\* the loop of the tagObj case, obj being the map built so far
decodeObjEntries(b, pos, n, depth, preserve, obj) ==
    IF n = 0 THEN [err |-> "", kv |-> obj, pos |-> pos]
    ELSE LET ln == readUvarint(b, pos)
             kb == readN(b, ln.pos, ln.x)
             val == decodeAny(b, kb.pos, depth, preserve)
         IN IF ln.err # "" THEN [err |-> ln.err, kv |-> <<>>, pos |-> 0]
            ELSE IF kb.err # "" THEN [err |-> kb.err, kv |-> <<>>, pos |-> 0]
            ELSE IF val.err # "" THEN [err |-> val.err, kv |-> <<>>, pos |-> 0]
            ELSE decodeObjEntries(b, val.pos, n - 1, depth, preserve,
                                  IF decKeeps(kb.bytes, preserve)
                                  THEN ObjPut(obj, kb.bytes, val.val) ELSE obj)

\* the loop of the tagMap case; storing under an unhashable key panics
decodeMapEntries(b, pos, n, depth, preserve, m) ==
    IF n = 0 THEN [err |-> "", mkv |-> m, pos |-> pos]
    ELSE LET k == decodeAny(b, pos, depth, preserve)
             v == decodeAny(b, k.pos, depth, preserve)
         IN IF k.err # "" THEN [err |-> k.err, mkv |-> <<>>, pos |-> 0]
            ELSE IF v.err # "" THEN [err |-> v.err, mkv |-> <<>>, pos |-> 0]
            ELSE IF ~Hashable(k.val) THEN [err |-> "panic", mkv |-> <<>>, pos |-> 0]
            ELSE decodeMapEntries(b, v.pos, n - 1, depth, preserve,
                                  MapPut(m, k.val, v.val))

decodeAny(b, pos, depth, preserve) ==
    IF depth > MaxDepth THEN DecErr("TooDeep")
    ELSE IF pos > Len(b) THEN DecErr("EOF")
    ELSE LET tag == b[pos] IN
      CASE tag = tagNull -> DecOk(VNull, pos + 1)
        [] tag = tagF -> DecOk(VBool(FALSE), pos + 1)
        [] tag = tagT -> DecOk(VBool(TRUE), pos + 1)
        [] tag \in {tagStr, tagTS, tagDate, tagTime, tagLink, tagAnnot, tagBin} ->
              LET n == readUvarint(b, pos + 1)
                  buf == readN(b, n.pos, n.x)
              IN IF n.err # "" THEN DecErr(n.err)
                 ELSE IF buf.err # "" THEN DecErr(buf.err)
                 ELSE DecOk([t |-> CASE tag = tagStr -> "Str" [] tag = tagTS -> "TS"
                                     [] tag = tagDate -> "Date" [] tag = tagTime -> "Time"
                                     [] tag = tagLink -> "Link" [] tag = tagAnnot -> "Annot"
                                     [] tag = tagBin -> "Bin",
                             s |-> buf.bytes], buf.pos)
        [] tag = tagInt ->
              LET n == readUvarint(b, pos + 1)
                  \* sign, _ := br.ReadByte(): at end of input sign is 0
                  sign == IF n.pos > Len(b) THEN 0 ELSE b[n.pos]
                  mpos == IF n.pos > Len(b) THEN n.pos ELSE n.pos + 1
                  mag == readN(b, mpos, n.x - 1)
                  z == BigSetBytes(mag.bytes)
              IN IF n.err # "" THEN DecErr(n.err)
                 ELSE IF n.x = 0 THEN DecOk(VInt(0, 100 + pos), n.pos)
                 ELSE IF mag.err # "" THEN DecErr(mag.err)
                 ELSE DecOk(VInt(IF sign = 1 THEN -z ELSE z, 100 + pos), mag.pos)
        [] tag = tagDec ->
              LET sign == IF pos + 1 > Len(b) THEN 0 ELSE b[pos + 1]
                  epos == IF pos + 1 > Len(b) THEN pos + 1 ELSE pos + 2
                  exp == readZigZag(b, epos)
                  ln == readUvarint(b, exp.pos)
                  coef == readN(b, ln.pos, ln.x)
                  c == BigSetBytes(coef.bytes)
              IN IF exp.err # "" THEN DecErr(exp.err)
                 ELSE IF ln.err # "" THEN DecErr(ln.err)
                 ELSE IF coef.err # "" THEN DecErr(coef.err)
                 ELSE DecOk(VDec(sign = 1, exp.x, c), coef.pos)
        [] tag \in {tagArr, tagSet} ->
              LET count == readUvarint(b, pos + 1)
                  r == decodeItems(b, count.pos, count.x, depth + 1, preserve)
              IN IF count.err # "" THEN DecErr(count.err)
                 ELSE IF r.err # "" THEN DecErr(r.err)
                 ELSE DecOk([t |-> IF tag = tagArr THEN "Arr" ELSE "Set",
                             items |-> r.vals], r.pos)
        [] tag = tagObj ->
              LET count == readUvarint(b, pos + 1)
                  r == decodeObjEntries(b, count.pos, count.x, depth + 1, preserve, <<>>)
              IN IF count.err # "" THEN DecErr(count.err)
                 ELSE IF r.err # "" THEN DecErr(r.err)
                 ELSE DecOk(VObj(r.kv), r.pos)
        [] tag = tagUUID ->
              LET u == readN(b, pos + 1, 16)
              IN IF u.err # "" THEN DecErr(u.err) ELSE DecOk(VUUID(u.bytes), u.pos)
        [] tag = tagMap ->
              LET count == readUvarint(b, pos + 1)
                  r == decodeMapEntries(b, count.pos, count.x, depth + 1, preserve, <<>>)
              IN IF count.err # "" THEN DecErr(count.err)
                 ELSE IF r.err # "" THEN DecErr(r.err)
                 ELSE DecOk(VMap(r.mkv), r.pos)
        [] tag = tagEnv ->
              LET metaAny == decodeAny(b, pos + 1, depth + 1, preserve)
                  body == decodeAny(b, metaAny.pos, depth + 1, preserve)
              IN IF metaAny.err # "" THEN DecErr(metaAny.err)
                 ELSE IF metaAny.val.t # "Obj" THEN DecErr("BadEnvelope")
                 ELSE IF body.err # "" THEN DecErr(body.err)
                 ELSE DecOk(VEnv(metaFrom(metaAny.val.kv), body.val), body.pos)
        [] OTHER -> DecErr("UnknownTag")

DecodeBinary(b, preserve) ==
    LET r == decodeAny(b, 1, 0, preserve) IN [err |-> r.err, val |-> r.val]

----------------------------------------------------------------------------
(* The values and the wire documents the codec is run on *)

sA == <<97>>
sB == <<98>>
sGift == <<103, 105, 102, 116>>
sFestival == <<102, 101, 115, 116, 105, 118, 97, 108>>
sTenant == <<116, 101, 110, 97, 110, 116>>
sSig == <<115, 105, 103>>
sType == <<116, 121, 112, 101>>
uuid0 == <<115, 188, 166, 191, 141, 157, 64, 149, 147, 244, 19, 232, 84, 133, 242, 219>>

\* sequences over S of length 0..n
SeqsUpTo(S, n) == UNION {[1..k -> S] : k \in 0..n}

Perms(n) == {f \in [1..n -> 1..n] : \A i, j \in 1..n : f[i] = f[j] => i = j}

Scalars ==
    {VNull, VBool(TRUE), VBool(FALSE), VStr(<<>>), VStr(sA),
     VInt(0, 1), VInt(1, 1), VInt(-1, 1), VInt(255, 1), VInt(256, 1), VInt(-65536, 1),
     VDec(FALSE, -2, 199995), VDec(TRUE, 3, 12), VDec(FALSE, 0, 0),
     VBin(<<0, 255>>), VTS(sA), VDate(sA), VTime(sA), VUUID(uuid0),
     VLink(sA), VAnnot(sB)}

Leaves == {VNull, VStr(sA), VInt(1, 1), VInt(2, 1)}

Arrs == {VArr(s) : s \in SeqsUpTo(Leaves, MaxElems)}

ObjKeys == {sA, sB, <<97, 98>>, CommentKey}
ObjVals == {VStr(sA), VInt(1, 1)}

\* a map[string]any under every iteration order: the keys are distinct
Objs ==
    {VObj(kv) : kv \in {s \in SeqsUpTo({KV(k, v) : k \in ObjKeys, v \in ObjVals},
                                       MaxElems) :
                           \A i, j \in 1..Len(s) : s[i].key = s[j].key => i = j}}

SetElems == {VStr(sGift), VStr(sFestival), VInt(1, 1), VBool(TRUE)}

Sets == {VSet(s) : s \in SeqsUpTo(SetElems, MaxElems)}

\* two Int keys of the same value are two keys when their pointers differ
MapKeys == {VStr(sA), VStr(sB), VInt(1, 1), VInt(1, 2)}
MapVals == {VStr(sA), VStr(sB)}

\* a Map under every iteration order: the keys are distinct under Go's ==
Maps ==
    {VMap(m) : m \in {s \in SeqsUpTo({MKV(k, v) : k \in MapKeys, v \in MapVals},
                                     MaxElems) :
                         \A i, j \in 1..Len(s) : GoEq(s[i].mk, s[j].mk) => i = j}}

CommentObjs ==
    {VObj(<<KV(CommentKey, VStr(sA))>>),
     VObj(<<KV(sB, VInt(1, 1)), KV(CommentKey, VStr(sA))>>),
     VObj(<<KV(CommentKey, VStr(sA)), KV(sA, VObj(<<KV(CommentKey, VStr(sB))>>))>>),
     VObj(<<KV(sA, VInt(1, 1))>>)}

EmptyMeta == VMeta(<<>>, <<>>, <<>>, VNull, VStrings(TRUE, <<>>), VNull)

\* x inside one container of kind w
Wrap(w, x) ==
    CASE w = "Arr" -> VArr(<<x>>)
      [] w = "Obj" -> VObj(<<KV(sA, x)>>)
      [] w = "Set" -> VSet(<<x>>)
      [] w = "Map" -> VMap(<<MKV(VStr(sA), x)>>)
      [] w = "Env" -> VEnv(EmptyMeta, x)

Wrappers == {"Arr", "Obj", "Set", "Map", "Env"}

Wrapped1(S) == {Wrap(w, x) : w \in Wrappers, x \in S}

CommentDocs == Wrapped1(CommentObjs) \cup Wrapped1(Wrapped1(CommentObjs))

Metas ==
    {VMeta(ty, <<>>, ve, cr, fe, sg) :
        ty \in {<<>>, sA}, ve \in {<<>>, sB}, cr \in {VNull, VTS(sA)},
        fe \in {VStrings(TRUE, <<>>), VStrings(FALSE, <<>>), VStrings(FALSE, <<sA, sB>>)},
        sg \in {VNull, VStr(sA)}}

Envs == {VEnv(m, b) : m \in Metas, b \in {VNull, VObj(<<KV(sA, VInt(1, 1))>>)}}

\* k containers of kind w around x
RECURSIVE Nest(_, _, _)
Nest(w, k, x) == IF k = 0 THEN x ELSE Wrap(w, Nest(w, k - 1, x))

NestLeaves == {VNull, VStr(sA), VArr(<<>>), VObj(<<>>), VSet(<<>>), VMap(<<>>)}

Nested ==
    {Nest(w, k, x) : w \in {"Arr", "Obj", "Set", "Map"}, k \in 1..(MaxDepth + 1),
                     x \in NestLeaves}

Values == Scalars \cup Arrs \cup Objs \cup Sets \cup Maps \cup CommentDocs
          \cup Envs \cup Nested

\* the encoding of one container of kind w around the encoded value x
WrapWire(w, x) ==
    CASE w = "Arr" -> <<tagArr, 1>> \o x
      [] w = "Obj" -> <<tagObj, 1>> \o writeString(sA) \o x
      [] w = "Set" -> <<tagSet, 1>> \o x
      [] w = "Map" -> <<tagMap, 1, tagStr>> \o writeString(sA) \o x
      [] w = "Env" -> <<tagEnv, tagObj, 0>> \o x

RECURSIVE NestWire(_, _, _)
NestWire(w, k, x) == IF k = 0 THEN x ELSE WrapWire(w, NestWire(w, k - 1, x))

\* encoded scalars and empty containers: [bytes, levels] with levels the
\* number of container levels the bytes add
WireLeaves ==
    {[bytes |-> <<tagNull>>, levels |-> 0],
     [bytes |-> <<tagStr>> \o writeString(sA), levels |-> 0],
     [bytes |-> <<tagArr, 0>>, levels |-> 1],
     [bytes |-> <<tagObj, 0>>, levels |-> 1],
     [bytes |-> <<tagSet, 0>>, levels |-> 1],
     [bytes |-> <<tagMap, 0>>, levels |-> 1]}

NestedWire ==
    {NestWire(w, k, x.bytes) : w \in Wrappers, k \in 0..(MaxDepth + 2), x \in WireLeaves}

\* documents whose first length or count field declares n
Declaring(n) ==
    {<<tag>> \o putUvarint(n) \o <<tagNull>> :
        tag \in {tagStr, tagBin, tagTS, tagLink, tagArr, tagSet, tagObj, tagMap}}

OversizeWire ==
    Declaring(MaxBytes + 1) \cup Declaring(2 * MaxBytes)
    \cup {<<tagArr, 1>> \o d : d \in Declaring(MaxBytes + 1)}

OtherWire ==
    {<<>>, <<18>>, <<tagInt, 0>>, <<tagInt, 1>>, <<tagInt, 2, 1, 5>>,
     <<tagEnv, tagNull, tagNull>>,
     \* Map: Int 1 -> "a", Int 1 -> "b"
     <<tagMap, 2, tagInt, 2, 0, 1, tagStr, 1, 97, tagInt, 2, 0, 1, tagStr, 1, 98>>,
     \* Map: "a" -> "a", "a" -> "b"
     <<tagMap, 2, tagStr, 1, 97, tagStr, 1, 97, tagStr, 1, 97, tagStr, 1, 98>>,
     \* Map with a Bin key
     <<tagMap, 1, tagBin, 0, tagNull>>,
     \* Obj: "a" -> null, "a" -> true
     <<tagObj, 2, 1, 97, tagNull, 1, 97, tagT>>,
     \* Obj: "$comment" -> "a"
     <<tagObj, 1>> \o writeString(CommentKey) \o <<tagStr, 1, 97>>,
     \* Env whose meta is {"tenant": "a"}, body null
     <<tagEnv, tagObj, 1>> \o writeString(sTenant) \o <<tagStr, 1, 97, tagNull>>,
     \* Env whose meta is {"sig": "a", "type": "a"}, body null
     <<tagEnv, tagObj, 2>> \o writeString(sSig) \o <<tagStr, 1, 97>>
        \o writeString(sType) \o <<tagStr, 1, 97, tagNull>>}
    \cup Declaring(1) \cup Declaring(MaxDepth)

\* Maps of one entry whose key is a Bin, Arr, Obj, Set or Map, the value null
UnhashableKeyWire ==
    {<<tagMap, 1, tag, 0, tagNull>> : tag \in {tagBin, tagArr, tagObj, tagSet, tagMap}}

WireDocs == NestedWire \cup OversizeWire \cup OtherWire \cup UnhashableKeyWire

----------------------------------------------------------------------------
(* The frame transport (jolt/stream.go) *)

\* the most WriteFrame calls made on the stream
MaxFrames == 3

\* hdr[:n] after n := binary.PutUvarint(hdr[:], uint64(len(payload))), with
\* the continuation bytes left out: the low byte of the length alone
frameHdrOneByte(n) == <<n % 256>>

\* hdr[:n] after n := binary.PutUvarint(hdr[:], uint64(len(payload)))
frameHdr(n) == putUvarint(n)

\* what WriteFrame(w, payload) appends to the stream
frameBytes(payload) == frameHdr(Len(payload)) \o payload

\* io.ReadFull(r, buf) with len(buf) = n, the reader having consumed
\* pos - 1 bytes of s
readFull(s, pos, n) ==
    IF n = 0 THEN [err |-> "", bytes |-> <<>>, pos |-> pos]
    ELSE IF pos > Len(s) THEN [err |-> "EOF", bytes |-> <<>>, pos |-> pos]
    ELSE IF pos + n - 1 > Len(s)
         THEN [err |-> "UnexpectedEOF", bytes |-> <<>>, pos |-> Len(s) + 1]
    ELSE [err |-> "", bytes |-> SubSeq(s, pos, pos + n - 1), pos |-> pos + n]

\* ReadFrame(r), the reader having consumed consumed bytes of s:
\* [err, buf, consumed]
ReadFrame(s, consumed) ==
    LET n == readUvarint(s, consumed + 1)
        buf == readFull(s, n.pos, n.x)
    IN IF n.err # "" THEN [err |-> n.err, buf |-> <<>>, consumed |-> n.pos - 1]
       ELSE IF buf.err # "" THEN [err |-> buf.err, buf |-> <<>>, consumed |-> buf.pos - 1]
       ELSE [err |-> "", buf |-> buf.bytes, consumed |-> buf.pos - 1]

\* the payloads written: empty, short, holding zero bytes, and one long
\* enough for a two-byte length
Payloads == {<<>>, <<7>>, <<0, 1>>, [k \in 1..200 |-> k % 256]}

----------------------------------------------------------------------------
(* StripJSONComments *)

sNorm == 0
sStr == 1
sStrEsc == 2
sSlash == 3
sLine == 4
sBlock == 5
sBlockStar == 6

chQuote == 34
chSlash == 47
chStar == 42
chBackslash == 92
chLF == 10
chCR == 13

\* one iteration of the loop on byte c in state st: the next state and the
\* bytes appended to out
stripStep(st, c) ==
    CASE st = sNorm ->
            IF c = chQuote THEN [state |-> sStr, emit |-> <<c>>]
            ELSE IF c = chSlash THEN [state |-> sSlash, emit |-> <<>>]
            ELSE [state |-> sNorm, emit |-> <<c>>]
      [] st = sSlash ->
            IF c = chSlash THEN [state |-> sLine, emit |-> <<>>]
            ELSE IF c = chStar THEN [state |-> sBlock, emit |-> <<>>]
            ELSE [state |-> sNorm, emit |-> <<chSlash, c>>]
      [] st = sLine ->
            IF c = chLF \/ c = chCR THEN [state |-> sNorm, emit |-> <<c>>]
            ELSE [state |-> sLine, emit |-> <<>>]
      [] st = sBlock ->
            IF c = chStar THEN [state |-> sBlockStar, emit |-> <<>>]
            ELSE [state |-> sBlock, emit |-> <<>>]
      [] st = sBlockStar ->
            IF c = chSlash THEN [state |-> sNorm, emit |-> <<>>]
            ELSE IF c # chStar THEN [state |-> sBlock, emit |-> <<>>]
            ELSE [state |-> sBlockStar, emit |-> <<>>]
      [] st = sStr ->
            IF c = chBackslash THEN [state |-> sStrEsc, emit |-> <<c>>]
            ELSE IF c = chQuote THEN [state |-> sNorm, emit |-> <<c>>]
            ELSE [state |-> sStr, emit |-> <<c>>]
      [] st = sStrEsc -> [state |-> sStr, emit |-> <<c>>]

\* the statement after the loop as it would be if it appended two slashes
stripTailDoubled(st) == IF st = sSlash THEN <<chSlash, chSlash>> ELSE <<>>

\* what the function appends after the loop when it ends in state st
stripTail(st) == IF st = sSlash THEN <<chSlash>> ELSE <<>>

\* the iterations of the loop on bytes lo..hi of b, entered in state st: the
\* state after them and the bytes they append.  The range is halved so that
\* the evaluation nests only as deep as the logarithm of its length.
RECURSIVE stripRange(_, _, _, _)
stripRange(b, lo, hi, st) ==
    IF lo > hi THEN [state |-> st, emit |-> <<>>]
    ELSE IF lo = hi THEN stripStep(st, b[lo])
    ELSE LET mid == (lo + hi) \div 2
             l == stripRange(b, lo, mid, st)
             r == stripRange(b, mid + 1, hi, l.state)
         IN \* the test makes the left half be evaluated before the right
            IF l.state >= sNorm THEN [state |-> r.state, emit |-> l.emit \o r.emit]
            ELSE l

StripJSONComments(b) ==
    LET r == stripRange(b, 1, Len(b), sNorm) IN r.emit \o stripTail(r.state)

\* the longest input of StripJSONComments
MaxStripLen == 5

\* the bytes of the inputs: the six the function tells apart and one other
StripBytes == {chQuote, chSlash, chStar, chBackslash, chLF, chCR, 120}

StripInputs == SeqsUpTo(StripBytes, MaxStripLen)

----------------------------------------------------------------------------
(* encoding/json as the JSON compatibility functions use it.  The strings  *)
(* of the model hold printable ASCII other than < > and &, of which        *)
(* json.Marshal escapes the double quote and the backslash only.           *)

\* "@type"
jsAtType == <<64, 116, 121, 112, 101>>
\* "value"
jsValue == <<118, 97, 108, 117, 101>>
\* "ref"
jsRef == <<114, 101, 102>>
\* "note"
jsNote == <<110, 111, 116, 101>>
\* "int"
jsInt == <<105, 110, 116>>
\* "dec"
jsDec == <<100, 101, 99>>
\* "bin"
jsBin == <<98, 105, 110>>
\* "uuid"
jsUuid == <<117, 117, 105, 100>>
\* "link"
jsLink == <<108, 105, 110, 107>>
\* "annot"
jsAnnot == <<97, 110, 110, 111, 116>>
\* "ts"
jsTs == <<116, 115>>
\* "date"
jsDate == <<100, 97, 116, 101>>
\* "time"
jsTime == <<116, 105, 109, 101>>
\* "$meta"
jsMeta == <<36, 109, 101, 116, 97>>
\* "$body"
jsBody == <<36, 98, 111, 100, 121>>
\* "null"
jsNull == <<110, 117, 108, 108>>
\* "true"
jsTrue == <<116, 114, 117, 101>>
\* "false"
jsFalse == <<102, 97, 108, 115, 101>>
sSchema == <<115, 99, 104, 101, 109, 97>>
sVersion == <<118, 101, 114, 115, 105, 111, 110>>
sFeatures == <<102, 101, 97, 116, 117, 114, 101, 115>>
sCreatedAt == <<99, 114, 101, 97, 116, 101, 100, 65, 116>>

\* a native float64 holding the integer n, as json.Unmarshal stores a number
VFloat(n) == [t |-> "Float", f |-> n]

\* big.Int.String
intString(n) == IF n < 0 THEN <<45>> \o digitsOf(-n) ELSE digitsOf(n)

\* apd.Decimal.String, the 'G' format: plain notation when the exponent is
\* not positive and the adjusted exponent is at least -6, else scientific
decString(d) ==
    LET digits == digitsOf(d.coeff)
        adj == d.exp + Len(digits) - 1
        sign == IF d.neg THEN <<45>> ELSE <<>>
        plain ==
            IF d.exp = 0 THEN digits
            ELSE IF Len(digits) > -d.exp
                 THEN SubSeq(digits, 1, Len(digits) + d.exp) \o <<46>>
                      \o SubSeq(digits, Len(digits) + d.exp + 1, Len(digits))
                 ELSE <<48, 46>> \o zeros(-d.exp - Len(digits)) \o digits
        sci ==
            <<digits[1]>>
            \o (IF Len(digits) > 1 THEN <<46>> \o Tail(digits) ELSE <<>>)
            \o <<69>> \o (IF adj < 0 THEN <<45>> ELSE <<43>>)
            \o digitsOf(IF adj < 0 THEN -adj ELSE adj)
    IN sign \o (IF d.exp <= 0 /\ adj >= -6 THEN plain ELSE sci)

\* the base64 alphabet of StdEncoding
b64Char(k) ==
    IF k < 26 THEN 65 + k
    ELSE IF k < 52 THEN 97 + (k - 26)
    ELSE IF k < 62 THEN 48 + (k - 52)
    ELSE IF k = 62 THEN 43 ELSE 47

\* base64.StdEncoding.EncodeToString
RECURSIVE base64Std(_)
base64Std(b) ==
    IF b = <<>> THEN <<>>
    ELSE IF Len(b) = 1
         THEN <<b64Char(b[1] \div 4), b64Char((b[1] % 4) * 16), 61, 61>>
    ELSE IF Len(b) = 2
         THEN <<b64Char(b[1] \div 4), b64Char((b[1] % 4) * 16 + b[2] \div 16),
                b64Char((b[2] % 16) * 4), 61>>
    ELSE <<b64Char(b[1] \div 4), b64Char((b[1] % 4) * 16 + b[2] \div 16),
           b64Char((b[2] % 16) * 4 + b[3] \div 64), b64Char(b[3] % 64)>>
         \o base64Std(SubSeq(b, 4, Len(b)))

hexDigit(k) == IF k < 10 THEN 48 + k ELSE 97 + (k - 10)

hexOf(b) == Concat([j \in 1..Len(b) |-> <<hexDigit(b[j] \div 16), hexDigit(b[j] % 16)>>])

\* UUID.String: "%08x-%04x-%04x-%04x-%012x"
uuidString(u) ==
    hexOf(SubSeq(u, 1, 4)) \o <<45>> \o hexOf(SubSeq(u, 5, 6)) \o <<45>>
    \o hexOf(SubSeq(u, 7, 8)) \o <<45>> \o hexOf(SubSeq(u, 9, 10)) \o <<45>>
    \o hexOf(SubSeq(u, 11, 16))

\* a JSON string literal
jsonQuote(s) ==
    <<chQuote>>
    \o Concat([j \in 1..Len(s) |->
                  IF s[j] = chQuote \/ s[j] = chBackslash
                  THEN <<chBackslash, s[j]>> ELSE <<s[j]>>])
    \o <<chQuote>>

\* parts joined by commas
RECURSIVE commaJoin(_)
commaJoin(parts) ==
    IF parts = <<>> THEN <<>>
    ELSE IF Len(parts) = 1 THEN parts[1]
    ELSE parts[1] \o <<44>> \o commaJoin(Tail(parts))

\* a JSON object of members [k, j]: key k, marshalled value j, in this order
jsonObject(members) ==
    <<123>>
    \o commaJoin([j \in 1..Len(members) |->
                     jsonQuote(members[j].k) \o <<58>> \o members[j].j])
    \o <<125>>

\* json.Marshal(map[string]any{"@type": ty, field: s}): keys in sorted order
taggedJSON(ty, field, s) ==
    jsonObject(<<[k |-> jsAtType, j |-> jsonQuote(ty)], [k |-> field, j |-> jsonQuote(s)]>>)

JsonErr(e) == [err |-> e, bytes |-> <<>>]
JsonOk(b) == [err |-> "", bytes |-> b]

RECURSIVE jsonMarshal(_)
RECURSIVE jsonMarshalEach(_)

\* the marshalled items in order, or the first error
jsonMarshalEach(items) ==
    IF items = <<>> THEN [err |-> "", parts |-> <<>>]
    ELSE LET h == jsonMarshal(Head(items))
             r == jsonMarshalEach(Tail(items))
         IN IF h.err # "" THEN [err |-> h.err, parts |-> <<>>]
            ELSE IF r.err # "" THEN r
            ELSE [err |-> "", parts |-> <<h.bytes>> \o r.parts]

\* json.Marshal(v): the MarshalJSON methods for the typed scalars, arrays
\* for []any and Set, sorted objects for map[string]any, the struct tags of
\* Envelope and Meta, and no encoder for Map, whose key type is any
jsonMarshal(v) ==
    CASE v.t = "Null" -> JsonOk(jsNull)
      [] v.t = "Bool" -> JsonOk(IF v.b THEN jsTrue ELSE jsFalse)
      [] v.t = "Str" -> JsonOk(jsonQuote(v.s))
      [] v.t = "Float" -> JsonOk(intString(v.f))
      [] v.t = "Int" -> JsonOk(taggedJSON(jsInt, jsValue, intString(v.n)))
      [] v.t = "Dec" -> JsonOk(taggedJSON(jsDec, jsValue, decString(v)))
      [] v.t = "Bin" -> JsonOk(taggedJSON(jsBin, jsValue, base64Std(v.s)))
      [] v.t = "UUID" -> JsonOk(taggedJSON(jsUuid, jsValue, uuidString(v.u)))
      [] v.t = "Link" -> JsonOk(taggedJSON(jsLink, jsRef, v.s))
      [] v.t = "Annot" -> JsonOk(taggedJSON(jsAnnot, jsNote, v.s))
      [] v.t = "TS" -> JsonOk(taggedJSON(jsTs, jsValue, v.s))
      [] v.t = "Date" -> JsonOk(taggedJSON(jsDate, jsValue, v.s))
      [] v.t = "Time" -> JsonOk(taggedJSON(jsTime, jsValue, v.s))
      [] v.t \in {"Arr", "Set"} ->
            LET r == jsonMarshalEach(v.items)
            IN IF r.err # "" THEN JsonErr(r.err)
               ELSE JsonOk(<<91>> \o commaJoin(r.parts) \o <<93>>)
      [] v.t = "Strings" ->
            IF v.isnil THEN JsonOk(jsNull)
            ELSE JsonOk(<<91>> \o commaJoin([j \in 1..Len(v.strs) |-> jsonQuote(v.strs[j])])
                        \o <<93>>)
      [] v.t = "Obj" ->
            LET ks == sortStrings([j \in 1..Len(v.kv) |-> v.kv[j].key])
                r == jsonMarshalEach([j \in 1..Len(ks) |-> ObjGet(v.kv, ks[j])])
            IN IF r.err # "" THEN JsonErr(r.err)
               ELSE JsonOk(jsonObject([j \in 1..Len(ks) |-> [k |-> ks[j], j |-> r.parts[j]]]))
      [] v.t = "Map" -> JsonErr("UnsupportedType")
      [] v.t = "Env" ->
            LET m == v.meta
                sig == jsonMarshal(m.Sig)
                created == jsonMarshal(m.Created)
                body == jsonMarshal(v.body)
                \* the fields of Meta in declaration order, each omitempty
                members ==
                    (IF m.Type # <<>> THEN <<[k |-> sType, j |-> jsonQuote(m.Type)]>> ELSE <<>>)
                    \o (IF m.Schema # <<>>
                        THEN <<[k |-> sSchema, j |-> jsonQuote(m.Schema)]>> ELSE <<>>)
                    \o (IF m.Version # <<>>
                        THEN <<[k |-> sVersion, j |-> jsonQuote(m.Version)]>> ELSE <<>>)
                    \o (IF m.Created.t # "Null"
                        THEN <<[k |-> sCreatedAt, j |-> created.bytes]>> ELSE <<>>)
                    \o (IF m.Features.strs # <<>>
                        THEN <<[k |-> sFeatures, j |-> jsonMarshal(m.Features).bytes]>>
                        ELSE <<>>)
                    \o (IF m.Sig.t # "Null" THEN <<[k |-> sSig, j |-> sig.bytes]>> ELSE <<>>)
            IN IF sig.err # "" THEN JsonErr(sig.err)
               ELSE IF body.err # "" THEN JsonErr(body.err)
               ELSE JsonOk(jsonObject(<<[k |-> jsMeta, j |-> jsonObject(members)],
                                        [k |-> jsBody, j |-> body.bytes]>>))

\* "\n" and depth times the two-space indent
jsonNewline(depth) == <<chLF>> \o [j \in 1..(2 * depth) |-> 32]

\* one byte c of json.Indent(dst, src, "", "  ") on compact src: inStr and
\* esc follow the string literals, need is the delayed indent after an
\* opening bracket; the next state and the bytes appended to dst
indentStep(st, c) ==
    IF st.inStr
    THEN [st |-> [st EXCEPT !.inStr = st.esc \/ c # chQuote,
                            !.esc = ~st.esc /\ c = chBackslash],
          emit |-> <<c>>]
    ELSE LET opens == st.need /\ c \notin {125, 93}
             d1 == IF opens THEN st.depth + 1 ELSE st.depth
             o1 == IF opens THEN jsonNewline(d1) ELSE <<>>
             n1 == st.need /\ ~opens
             to(inStr, need, depth) ==
                 [inStr |-> inStr, esc |-> FALSE, need |-> need, depth |-> depth]
         IN CASE c \in {123, 91} -> [st |-> to(FALSE, TRUE, d1), emit |-> Append(o1, c)]
              [] c = 44 ->
                   [st |-> to(FALSE, n1, d1), emit |-> Append(o1, c) \o jsonNewline(d1)]
              [] c = 58 -> [st |-> to(FALSE, n1, d1), emit |-> o1 \o <<c, 32>>]
              [] c \in {125, 93} ->
                   IF n1 THEN [st |-> to(FALSE, FALSE, d1), emit |-> Append(o1, c)]
                   ELSE [st |-> to(FALSE, FALSE, d1 - 1),
                         emit |-> Append(o1 \o jsonNewline(d1 - 1), c)]
              [] OTHER -> [st |-> to(c = chQuote, n1, d1), emit |-> Append(o1, c)]

\* the bytes lo..hi of src, the range halved as in stripRange
RECURSIVE indentRange(_, _, _, _)
indentRange(src, lo, hi, st) ==
    IF lo > hi THEN [st |-> st, emit |-> <<>>]
    ELSE IF lo = hi THEN indentStep(st, src[lo])
    ELSE LET mid == (lo + hi) \div 2
             l == indentRange(src, lo, mid, st)
             r == indentRange(src, mid + 1, hi, l.st)
         IN IF l.st.depth >= 0 THEN [st |-> r.st, emit |-> l.emit \o r.emit]
            ELSE l

jsonIndent(src) ==
    indentRange(src, 1, Len(src),
                [inStr |-> FALSE, esc |-> FALSE, need |-> FALSE, depth |-> 0]).emit

\* json.MarshalIndent(v, "", "  ")
jsonMarshalIndent(v) ==
    LET r == jsonMarshal(v)
    IN IF r.err # "" THEN r ELSE JsonOk(jsonIndent(r.bytes))

MarshalJSONCompat(v, indent) ==
    IF indent THEN jsonMarshalIndent(v) ELSE jsonMarshal(v)

----------------------------------------------------------------------------
(* json.Unmarshal(data, &v) with v an empty interface: objects become      *)
(* map[string]any, arrays []any, strings string, numbers float64.  Of the  *)
(* number grammar the model reads integer literals; of the escapes, \" \\  *)
(* \/ and the one-letter control escapes.                                   *)

isSpace(c) == c \in {32, 9, chLF, chCR}

RECURSIVE skipSpace(_, _)
skipSpace(b, pos) ==
    IF pos <= Len(b) /\ isSpace(b[pos]) THEN skipSpace(b, pos + 1) ELSE pos

ParseErr(e) == [err |-> e, val |-> VNull, pos |-> 0]
ParseOk(v, pos) == [err |-> "", val |-> v, pos |-> pos]

\* whether the bytes of lit stand at pos
litAt(b, pos, lit) == pos + Len(lit) - 1 <= Len(b) /\ SubSeq(b, pos, pos + Len(lit) - 1) = lit

\* the character an escape letter stands for, 0 when the model knows none
unescape(c) ==
    CASE c = chQuote -> chQuote
      [] c = chBackslash -> chBackslash
      [] c = chSlash -> chSlash
      [] c = 110 -> chLF
      [] c = 114 -> chCR
      [] c = 116 -> 9
      [] c = 98 -> 8
      [] c = 102 -> 12
      [] OTHER -> 0

\* the rest of a string literal, pos being after its opening quote:
\* [err, s, pos]
RECURSIVE parseStringBody(_, _, _)
parseStringBody(b, pos, acc) ==
    IF pos > Len(b) THEN [err |-> "SyntaxError", s |-> <<>>, pos |-> 0]
    ELSE IF b[pos] = chQuote THEN [err |-> "", s |-> acc, pos |-> pos + 1]
    ELSE IF b[pos] = chBackslash
         THEN IF pos + 1 > Len(b) \/ unescape(b[pos + 1]) = 0
              THEN [err |-> "SyntaxError", s |-> <<>>, pos |-> 0]
              ELSE parseStringBody(b, pos + 2, Append(acc, unescape(b[pos + 1])))
    ELSE IF b[pos] < 32 THEN [err |-> "SyntaxError", s |-> <<>>, pos |-> 0]
    ELSE parseStringBody(b, pos + 1, Append(acc, b[pos]))

isDigit(c) == c >= 48 /\ c <= 57

\* the digits from pos on: [n, pos]
RECURSIVE parseDigits(_, _, _)
parseDigits(b, pos, n) ==
    IF pos <= Len(b) /\ isDigit(b[pos])
    THEN parseDigits(b, pos + 1, 10 * n + (b[pos] - 48))
    ELSE [n |-> n, pos |-> pos]

RECURSIVE parseValue(_, _)
RECURSIVE parseElements(_, _, _)
RECURSIVE parseMembers(_, _, _)

\* the elements of an array after the first position of an element
parseElements(b, pos, acc) ==
    LET v == parseValue(b, pos)
        p == skipSpace(b, v.pos)
    IN IF v.err # "" THEN v
       ELSE IF p > Len(b) THEN ParseErr("SyntaxError")
       ELSE IF b[p] = 44 THEN parseElements(b, p + 1, Append(acc, v.val))
       ELSE IF b[p] = 93 THEN ParseOk(VArr(Append(acc, v.val)), p + 1)
       ELSE ParseErr("SyntaxError")

\* the members of an object after the first position of a member; a key
\* met again replaces the value stored under it
parseMembers(b, pos, acc) ==
    LET kp == skipSpace(b, pos)
        k == parseStringBody(b, kp + 1, <<>>)
        cp == skipSpace(b, k.pos)
        v == parseValue(b, cp + 1)
        p == skipSpace(b, v.pos)
    IN IF kp > Len(b) \/ b[kp] # chQuote THEN ParseErr("SyntaxError")
       ELSE IF k.err # "" THEN ParseErr(k.err)
       ELSE IF cp > Len(b) \/ b[cp] # 58 THEN ParseErr("SyntaxError")
       ELSE IF v.err # "" THEN v
       ELSE IF p > Len(b) THEN ParseErr("SyntaxError")
       ELSE IF b[p] = 44 THEN parseMembers(b, p + 1, ObjPut(acc, k.s, v.val))
       ELSE IF b[p] = 125 THEN ParseOk(VObj(ObjPut(acc, k.s, v.val)), p + 1)
       ELSE ParseErr("SyntaxError")

parseValue(b, pos) ==
    LET p == skipSpace(b, pos) IN
    IF p > Len(b) THEN ParseErr("SyntaxError")
    ELSE CASE litAt(b, p, jsNull) -> ParseOk(VNull, p + 4)
      [] litAt(b, p, jsTrue) -> ParseOk(VBool(TRUE), p + 4)
      [] litAt(b, p, jsFalse) -> ParseOk(VBool(FALSE), p + 5)
      [] b[p] = chQuote ->
            LET s == parseStringBody(b, p + 1, <<>>)
            IN IF s.err # "" THEN ParseErr(s.err) ELSE ParseOk(VStr(s.s), s.pos)
      [] b[p] = 91 ->
            LET q == skipSpace(b, p + 1)
            IN IF q <= Len(b) /\ b[q] = 93 THEN ParseOk(VArr(<<>>), q + 1)
               ELSE parseElements(b, q, <<>>)
      [] b[p] = 123 ->
            LET q == skipSpace(b, p + 1)
            IN IF q <= Len(b) /\ b[q] = 125 THEN ParseOk(VObj(<<>>), q + 1)
               ELSE parseMembers(b, q, <<>>)
      [] isDigit(b[p]) \/ (b[p] = 45 /\ p < Len(b) /\ isDigit(b[p + 1])) ->
            LET neg == b[p] = 45
                d == parseDigits(b, IF neg THEN p + 1 ELSE p, 0)
            IN IF d.pos <= Len(b) /\ b[d.pos] \in {46, 69, 101}
               THEN ParseErr("NumberNotModelled")
               ELSE ParseOk(VFloat(IF neg THEN -d.n ELSE d.n), d.pos)
      [] OTHER -> ParseErr("SyntaxError")

\* json.Unmarshal(data, &v): one value, then nothing but white space
jsonUnmarshal(data) ==
    LET r == parseValue(data, 1)
    IN IF r.err # "" THEN [err |-> r.err, val |-> VNull]
       ELSE IF skipSpace(data, r.pos) <= Len(data) THEN [err |-> "SyntaxError", val |-> VNull]
       ELSE [err |-> "", val |-> r.val]

UnmarshalJSONWithComments(data) == jsonUnmarshal(StripJSONComments(data))


----------------------------------------------------------------------------
(* JOLT-SEC: the sealed container around a JOLT-B document.  The AEAD      *)
(* primitives are a library: Seal is a function of (key, nonce, plaintext, *)
(* additional data) whose result is the plaintext's length plus a 16-byte  *)
(* tag, and Open accepts exactly the (key, nonce, ciphertext, additional   *)
(* data) of a Seal that was made, which is what an unforgeable AEAD gives. *)
(* Both panic on a nonce that has not the suite's length.                  *)

AlgXChaCha20Poly1305 == <<88, 67, 72, 65, 67, 72, 65, 50, 48, 45, 80, 79, 76, 89, 49, 51, 48, 53>>
AlgAES256GCM == <<65, 69, 83, 45, 50, 53, 54, 45, 71, 67, 77>>
magicJSEC == <<74, 83, 69, 67>>
sAlg == <<97, 108, 103>>
sKid == <<107, 105, 100>>
sExtra == <<101, 120, 116, 114, 97>>

\* chacha20poly1305.KeySize, NonceSizeX; the AES-256 key and GCM nonce sizes;
\* the tag both suites append
keyLen32 == 32
nonceLenX == 24
nonceLenGCM == 12
tagLen == 16
ver01 == 1

\* the registry: [keyLen, nonceLen] of the registered algorithms
suites ==
    [a \in {AlgXChaCha20Poly1305, AlgAES256GCM} |->
        IF a = AlgXChaCha20Poly1305
        THEN [keyLen |-> keyLen32, nonceLen |-> nonceLenX]
        ELSE [keyLen |-> keyLen32, nonceLen |-> nonceLenGCM]]

\* suiteFor: [err, keyLen, nonceLen]
suiteFor(alg) ==
    IF alg \in DOMAIN suites
    THEN [err |-> "", keyLen |-> suites[alg].keyLen, nonceLen |-> suites[alg].nonceLen]
    ELSE [err |-> "UnsupportedAlg", keyLen |-> 0, nonceLen |-> 0]

\* Get as it would be if a missing key id gave an empty key and no error
GetZero(kr, keyID) ==
    IF \E i \in 1..Len(kr) : kr[i].kid = keyID
    THEN [err |-> "", key |-> kr[CHOOSE i \in 1..Len(kr) : kr[i].kid = keyID].key]
    ELSE [err |-> "", key |-> <<>>]

\* StaticKeyring.Get on a keyring given as a sequence of [kid, key] with
\* distinct kids: [err, key]
Get(kr, keyID) ==
    IF \E i \in 1..Len(kr) : kr[i].kid = keyID
    THEN [err |-> "", key |-> kr[CHOOSE i \in 1..Len(kr) : kr[i].kid = keyID].key]
    ELSE [err |-> "UnknownKey", key |-> <<>>]

\* a Header; Extra is a map[string]string: nil or the entries [ek, ev]
Header(alg, kid, extra) == [Alg |-> alg, KeyID |-> kid, Extra |-> extra]
ExtraNil == [isnil |-> TRUE, kv |-> <<>>]
ExtraOf(kv) == [isnil |-> FALSE, kv |-> kv]
ZeroHeader == Header(<<>>, <<>>, ExtraNil)

\* json.Marshal(hdr): the fields in declaration order, the keys of extra
\* sorted, extra left out when the map is empty
headerJSON(hdr) ==
    LET es == insertionSort([i \in 1..Len(hdr.Extra.kv) |->
                                [sk |-> hdr.Extra.kv[i].ek, ev |-> hdr.Extra.kv[i].ev]])
        extra == jsonObject([i \in 1..Len(es) |-> [k |-> es[i].sk, j |-> jsonQuote(es[i].ev)]])
    IN jsonObject(
           <<[k |-> sAlg, j |-> jsonQuote(hdr.Alg)], [k |-> sKid, j |-> jsonQuote(hdr.KeyID)]>>
           \o (IF Len(hdr.Extra.kv) = 0 THEN <<>> ELSE <<[k |-> sExtra, j |-> extra]>>))

\* json.Unmarshal(data, &hdr) on a zero Header: [err, hdr].  A null leaves a
\* field as it is, a member of another type is an error, other members are
\* ignored.  Member names are matched as they are written.
headerField(obj, name) ==
    IF ObjHas(obj.kv, name)
    THEN obj.kv[CHOOSE i \in 1..Len(obj.kv) : obj.kv[i].key = name].val
    ELSE VNull

headerFromValue(r) ==
    LET a == headerField(r.val, sAlg)
        k == headerField(r.val, sKid)
        e == headerField(r.val, sExtra)
        bad == [err |-> "UnmarshalTypeError", hdr |-> ZeroHeader]
    IN IF r.err # "" THEN [err |-> r.err, hdr |-> ZeroHeader]
       ELSE IF r.val.t = "Null" THEN [err |-> "", hdr |-> ZeroHeader]
       ELSE IF r.val.t # "Obj" THEN bad
       ELSE IF a.t \notin {"Null", "Str"} \/ k.t \notin {"Null", "Str"} THEN bad
       ELSE IF e.t \notin {"Null", "Obj"} THEN bad
       ELSE IF e.t = "Obj" /\ \E i \in 1..Len(e.kv) : e.kv[i].val.t \notin {"Null", "Str"}
            THEN bad
       ELSE [err |-> "",
             hdr |-> Header(IF a.t = "Str" THEN a.s ELSE <<>>,
                            IF k.t = "Str" THEN k.s ELSE <<>>,
                            IF e.t = "Null" THEN ExtraNil
                            ELSE ExtraOf([i \in 1..Len(e.kv) |->
                                      [ek |-> e.kv[i].key,
                                       ev |-> IF e.kv[i].val.t = "Str"
                                              THEN e.kv[i].val.s ELSE <<>>]]))]

headerFromJSON(data) == The({headerFromValue(r) : r \in {jsonUnmarshal(data)}})

\* the sum of the bytes s[lo..hi], modulo 2^16
RECURSIVE byteSumRange(_, _, _)
byteSumRange(s, lo, hi) ==
    IF lo > hi THEN 0
    ELSE IF lo = hi THEN s[lo]
    ELSE (byteSumRange(s, lo, (lo + hi) \div 2)
          + byteSumRange(s, ((lo + hi) \div 2) + 1, hi)) % 65536

byteSum(s) == byteSumRange(s, 1, Len(s))

\* a.Seal(nil, nonce, pt, aad) under key: the masked plaintext and the tag
Seal(key, nonce, pt, aad) ==
    LET t == byteSum(key) + 3 * byteSum(nonce) + 5 * byteSum(aad) + 7 * byteSum(pt)
    IN [i \in 1..Len(pt) |->
           (pt[i] + key[((i - 1) % Len(key)) + 1] + nonce[((i - 1) % Len(nonce)) + 1]) % 256]
       \o [j \in 1..tagLen |-> (t + j * j) % 256]

\* a.Open(nil, nonce, ct, aad) under key, made is the set of Seal calls that
\* were made: [err, pt]
Open(made, suite, key, nonce, ct, aad) ==
    IF Len(nonce) # suite.nonceLen THEN [err |-> "panic", pt |-> <<>>]
    ELSE IF \E s \in made : s.key = key /\ s.nonce = nonce /\ s.ct = ct /\ s.aad = aad
    THEN [err |-> "",
          pt |-> (CHOOSE s \in made :
                      s.key = key /\ s.nonce = nonce /\ s.ct = ct /\ s.aad = aad).pt]
    ELSE [err |-> "AuthFailed", pt |-> <<>>]

writeVarBytes(b) == putUvarint(Len(b)) \o b

\* readVarBytes: [err, bytes, pos]
readVarBytes(b, pos) ==
    LET n == readUvarint(b, pos)
    IN IF n.err # "" THEN [err |-> n.err, bytes |-> <<>>, pos |-> 0]
       ELSE readN(b, n.pos, n.x)

\* the buffer with the nonce and the additional data in each other's place
jsecBlobAadFirst(alg, kid, nonce, aad, ct) ==
    magicJSEC \o <<ver01>> \o writeVarBytes(alg) \o writeVarBytes(kid)
    \o writeVarBytes(aad) \o writeVarBytes(nonce) \o writeVarBytes(ct)

\* the buffer EncryptJOLT fills
jsecBlob(alg, kid, nonce, aad, ct) ==
    magicJSEC \o <<ver01>> \o writeVarBytes(alg) \o writeVarBytes(kid)
    \o writeVarBytes(nonce) \o writeVarBytes(aad) \o writeVarBytes(ct)

NoSeal == {}

\* EncryptJOLT(v, hdr, kr), rnd being what rand.Reader gives when it is read:
\* [err, bytes, drew, seals], drew the number of nonces read and seals the
\* Seal calls made
EncryptJOLT(v, hdr, kr, rnd, preserve) ==
    LET suite == suiteFor(hdr.Alg)
        key == Get(kr, hdr.KeyID)
        pt == EncodeBinary(v, preserve)
        nonce == SubSeq(rnd, 1, suite.nonceLen)
        aadJSON == headerJSON(hdr)
        ct == Seal(key.key, nonce, pt.bytes, aadJSON)
        fail(e) == [err |-> e, bytes |-> <<>>, drew |-> 0, seals |-> NoSeal]
    IN IF suite.err # "" THEN fail(suite.err)
       ELSE IF key.err # "" THEN fail(key.err)
       ELSE IF Len(key.key) # suite.keyLen THEN fail("KeyLengthMismatch")
       ELSE IF pt.err # "" THEN fail(pt.err)
       ELSE [err |-> "",
             bytes |-> jsecBlob(hdr.Alg, hdr.KeyID, nonce, aadJSON, ct),
             drew |-> 1,
             seals |-> {[key |-> key.key, nonce |-> nonce, aad |-> aadJSON,
                         pt |-> pt.bytes, ct |-> ct]}]

\* the check left out
headerMismatchIgnored(hdr, alg, keyID) == FALSE

\* whether the header of the additional data disagrees with the outer fields
headerMismatch(hdr, alg, keyID) == hdr.KeyID # keyID \/ alg # hdr.Alg

\* k times readVarBytes from pos on: [err, fields], the first error returned
RECURSIVE readVarFields(_, _, _)
readVarFields(b, pos, k) ==
    IF k = 0 THEN [err |-> "", fields |-> <<>>]
    ELSE The({IF f.err # "" THEN [err |-> f.err, fields |-> <<>>]
              ELSE The({[err |-> rest.err,
                         fields |-> IF rest.err # "" THEN <<>> ELSE <<f.bytes>> \o rest.fields] :
                        rest \in {readVarFields(b, f.pos, k - 1)}}) :
              f \in {readVarBytes(b, pos)}})

DecFail(e, g, o) == [err |-> e, val |-> VNull, hdr |-> ZeroHeader, gets |-> g, opens |-> o]

\* DecryptJOLT from the Open call on
decryptOpen(suite, key, nonce, ct, aadJSON, hdr, made, preserve) ==
    The({IF pt.err = "panic" THEN DecFail("panic", 1, 1)
         ELSE IF pt.err # "" THEN DecFail("DecryptionFailed", 1, 1)
         ELSE The({[err |-> d.err, val |-> d.val, hdr |-> hdr, gets |-> 1, opens |-> 1] :
                   d \in {DecodeBinary(pt.pt, preserve)}}) :
         pt \in {Open(made, suite, key, nonce, ct, aadJSON)}})

\* DecryptJOLT after the five fields alg, keyID, nonce, aadJSON, ct are read
decryptFields(alg, keyID, nonce, aadJSON, ct, kr, made, preserve) ==
    The({IF h.err # "" THEN DecFail(h.err, 0, 0)
         ELSE IF headerMismatch(h.hdr, alg, keyID) THEN DecFail("HeaderMismatch", 0, 0)
         ELSE The({IF suite.err # "" THEN DecFail(suite.err, 0, 0)
                   ELSE IF key.err # "" THEN DecFail(key.err, 1, 0)
                   ELSE IF Len(key.key) # suite.keyLen THEN DecFail("KeyLengthMismatch", 1, 0)
                   ELSE decryptOpen(suite, key.key, nonce, ct, aadJSON, h.hdr, made, preserve) :
                   suite \in {suiteFor(h.hdr.Alg)}, key \in {Get(kr, h.hdr.KeyID)}}) :
         h \in {headerFromJSON(aadJSON)}})

\* DecryptJOLT(jsec, kr): [err, val, hdr, gets, opens], gets and opens the
\* numbers of kr.Get and a.Open calls made
DecryptJOLT(jsec, kr, made, preserve) ==
    IF Len(jsec) = 0 THEN DecFail("EOF", 0, 0)
    ELSE IF Len(jsec) < 4 THEN DecFail("UnexpectedEOF", 0, 0)
    ELSE IF SubSeq(jsec, 1, 4) # magicJSEC THEN DecFail("BadMagic", 0, 0)
    ELSE IF Len(jsec) < 5 THEN DecFail("EOF", 0, 0)
    ELSE IF jsec[5] # ver01 THEN DecFail("UnsupportedVersion", 0, 0)
    ELSE The({IF r.err # "" THEN DecFail(r.err, 0, 0)
              ELSE decryptFields(r.fields[1], r.fields[2], r.fields[3], r.fields[4],
                                 r.fields[5], kr, made, preserve) :
              r \in {readVarFields(jsec, 6, 5)}})
----------------------------------------------------------------------------
(* The REST service (cmd/restapi/main.go) *)

mtJOLT == <<97, 112, 112, 108, 105, 99, 97, 116, 105, 111, 110, 47, 106, 111, 108, 116>>
mtJB == <<97, 112, 112, 108, 105, 99, 97, 116, 105, 111, 110, 47, 106, 111, 108, 116, 45, 98, 105, 110, 97, 114, 121>>
mtJSEC == <<97, 112, 112, 108, 105, 99, 97, 116, 105, 111, 110, 47, 106, 111, 108, 116, 45, 115, 101, 99>>
mtJSON == <<97, 112, 112, 108, 105, 99, 97, 116, 105, 111, 110, 47, 106, 115, 111, 110>>
sPOST == <<80, 79, 83, 84>>
sOrders == <<47, 111, 114, 100, 101, 114, 115>>
sDollarId == <<36, 105, 100>>
sDollarBody == <<36, 98, 111, 100, 121>>
sDollarMeta == <<36, 109, 101, 116, 97>>
sM == <<109>>
sP == <<112>>
sTs == <<116, 115>>
sAuto == <<97, 117, 116, 111, 58>>

\* the package variables kid and alg, alg as the default of -alg sets it
serverKid == <<107, 49>>
serverAlg == AlgXChaCha20Poly1305

\* strings.ToLower on ASCII
ToLower(s) == [i \in 1..Len(s) |-> IF s[i] >= 65 /\ s[i] <= 90 THEN s[i] + 32 ELSE s[i]]

\* strings.TrimSpace on ASCII: leading and trailing white space removed
TrimSpace(s) ==
    LET white(c) == c \in {9, 10, 11, 12, 13, 32}
        keep == {i \in 1..Len(s) : ~white(s[i])}
    IN IF keep = {} THEN <<>>
       ELSE SubSeq(s, CHOOSE i \in keep : \A j \in keep : i <= j,
                   CHOOSE i \in keep : \A j \in keep : i >= j)

HasPrefix(s, p) == Len(s) >= Len(p) /\ SubSeq(s, 1, Len(p)) = p

Contains(s, sub) == \E i \in 0..(Len(s) - Len(sub)) : SubSeq(s, i + 1, i + Len(sub)) = sub

\* negotiate(accept, JSEC, JOLT, JB, JSON): the first supported type that
\* occurs in accept, JSON when accept is empty or names none
negotiate(accept) ==
    IF accept = <<>> THEN mtJSON
    ELSE IF Contains(accept, mtJSEC) THEN mtJSEC
    ELSE IF Contains(accept, mtJOLT) THEN mtJOLT
    ELSE IF Contains(accept, mtJB) THEN mtJB
    ELSE mtJSON

\* m[k].(string): [ok, s]
strAt(kv, k) ==
    IF ObjHas(kv, k) /\ ObjGet(kv, k).t = "Str"
    THEN [ok |-> TRUE, s |-> ObjGet(kv, k).s] ELSE [ok |-> FALSE, s |-> <<>>]

\* m[k].(map[string]any): [ok, kv]
mapAt(kv, k) ==
    IF ObjHas(kv, k) /\ ObjGet(kv, k).t = "Obj"
    THEN [ok |-> TRUE, kv |-> ObjGet(kv, k).kv] ELSE [ok |-> FALSE, kv |-> <<>>]

\* extractID: $id of an Envelope's body, else $body.$id, else $id, else ""
extractID(v) ==
    IF v.t = "Env" /\ v.body.t = "Obj" /\ strAt(v.body.kv, sDollarId).ok
    THEN strAt(v.body.kv, sDollarId).s
    ELSE IF v.t = "Obj"
         THEN IF mapAt(v.kv, sDollarBody).ok
                 /\ strAt(mapAt(v.kv, sDollarBody).kv, sDollarId).ok
              THEN strAt(mapAt(v.kv, sDollarBody).kv, sDollarId).s
              ELSE strAt(v.kv, sDollarId).s
    ELSE <<>>

ZeroMeta ==
    [Type |-> <<>>, Schema |-> <<>>, Version |-> <<>>, Created |-> VNull,
     Features |-> VStrings(TRUE, <<>>), Sig |-> VNull]

\* metaFromMap: type and version, when they are strings
metaFromMap(mm) ==
    [ZeroMeta EXCEPT !.Type = strAt(mm, <<116, 121, 112, 101>>).s,
                     !.Version = strAt(mm, <<118, 101, 114, 115, 105, 111, 110>>).s]

\* the meta each branch of handleCreate takes from the decoded value: that
\* of an Envelope, else the one built from the member $meta of a map
requestMeta(v) ==
    IF v.t = "Env" THEN v.meta
    ELSE IF v.t = "Obj" /\ mapAt(v.kv, sDollarMeta).ok
         THEN metaFromMap(mapAt(v.kv, sDollarMeta).kv)
    ELSE ZeroMeta

\* buildAAD(method, path), stamp being time.Now() as formatted
buildAAD(method, path, stamp) ==
    ExtraOf(<<[ek |-> sM, ev |-> method], [ek |-> sP, ev |-> path],
              [ek |-> sTs, ev |-> stamp]>>)

\* extra[k] on a map[string]string: "" when the key is missing
extraAt(extra, k) ==
    IF \E i \in 1..Len(extra.kv) : extra.kv[i].ek = k
    THEN extra.kv[CHOOSE i \in 1..Len(extra.kv) : extra.kv[i].ek = k].ev
    ELSE <<>>

aadMatches(extra, method, path) ==
    IF extra.isnil THEN TRUE
    ELSE extraAt(extra, sM) = method /\ extraAt(extra, sP) = path

\* the switch on ct in handleCreate, its cases tried in the order written:
\* [branch, calls, status, v], calls the functions the body was given to
\* and status 0 when the handler goes on; a panic ends the handler
Decoded(branch, calls, status, v) ==
    [branch |-> branch, calls |-> calls, status |-> status, v |-> v]

decodeRequest(ct, body, kr, made, preserve) ==
    IF HasPrefix(ct, mtJSON)
    THEN The({Decoded("json", {"UnmarshalJSONWithComments"},
                      IF u.err # "" THEN 400 ELSE 0, u.val) :
              u \in {UnmarshalJSONWithComments(body)}})
    ELSE IF HasPrefix(ct, mtJOLT) \/ HasPrefix(ct, mtJB)
    THEN The({Decoded("jolt", {"DecodeBinary"},
                      IF d.err = "panic" THEN -1 ELSE IF d.err # "" THEN 400 ELSE 0,
                      d.val) :
              d \in {DecodeBinary(body, preserve)}})
    ELSE IF HasPrefix(ct, mtJSEC)
    THEN IF kr = <<>> THEN Decoded("sec", {}, 400, VNull)
         ELSE The({IF d.err = "panic" THEN Decoded("sec", {"DecryptJOLT"}, -1, VNull)
                   ELSE IF d.err # "" THEN Decoded("sec", {"DecryptJOLT"}, 400, VNull)
                   ELSE Decoded("sec", {"DecryptJOLT", "aadMatches"},
                                IF aadMatches(d.hdr.Extra, sPOST, sOrders) THEN 0 ELSE 400,
                                d.val) :
                   d \in {DecryptJOLT(body, kr, made, preserve)}})
    ELSE Decoded("unsupported", {}, 415, VNull)

\* mustDecodeJOLT and mustDecodeJSON: the errors are dropped
mustDecodeJOLT(jb, preserve) == DecodeBinary(jb, preserve).val
mustDecodeJSON(jb, preserve) == MarshalJSONCompat(mustDecodeJOLT(jb, preserve), TRUE).bytes

\* what the JOLT-SEC response encrypts: the stored document by way of JSON,
\* or as decoded when that JSON does not parse
responseObject(jb, preserve) ==
    The({IF u.err # "" THEN DecodeBinary(jb, preserve).val ELSE u.val :
         u \in {UnmarshalJSONWithComments(mustDecodeJSON(jb, preserve))}})

\* the response switch of handleCreate: [status, mt, body, seals, drew]
Answer(status, mt, body, seals, drew) ==
    [status |-> status, mt |-> mt, body |-> body, seals |-> seals, drew |-> drew]

respondCreated(jb, id, accept, kr, rnd, stamp, preserve) ==
    LET mt == negotiate(ToLower(accept)) IN
    IF mt = mtJSEC
    THEN IF kr = <<>> THEN Answer(406, <<>>, <<>>, NoSeal, 0)
         ELSE The({IF sec.err # "" THEN Answer(500, <<>>, <<>>, NoSeal, 0)
                   ELSE Answer(201, mtJSEC, sec.bytes, sec.seals, sec.drew) :
                   sec \in {EncryptJOLT(responseObject(jb, preserve),
                                        Header(serverAlg, serverKid,
                                               buildAAD(sPOST, sOrders \o <<47>> \o id, stamp)),
                                        kr, rnd, preserve)}})
    ELSE IF mt \in {mtJOLT, mtJB} THEN Answer(201, mt, jb, NoSeal, 0)
    ELSE Answer(201, mtJSON, MarshalJSONCompat(mustDecodeJOLT(jb, preserve), TRUE).bytes,
                NoSeal, 0)

\* store.put
put(st, id, meta, jb) ==
    {e \in st : e.id # id} \cup {[id |-> id, meta |-> meta, jb |-> jb]}

----------------------------------------------------------------------------
(* The initial values of the other components *)

FrameInit ==
    /\ stream = <<>>
    /\ rd = 0
    /\ written = <<>>
    /\ got = <<>>
    /\ ferr = ""

StripIdle ==
    /\ stripIn = <<>>
    /\ si = 1
    /\ state = sNorm
    /\ stripOut = <<>>
    /\ stripDone = FALSE

JsonInit ==
    /\ jpc = "idle"
    /\ jarg = VNull
    /\ jindent = FALSE
    /\ jtext = [err |-> "none", bytes |-> <<>>]
    /\ jres = [err |-> "none", val |-> VNull]

NoEncArgs == [v |-> VNull, hdr |-> ZeroHeader, kr |-> <<>>, rnd |-> <<>>]
NoDecIn == [bytes |-> <<>>, kr |-> <<>>, part |-> "none", how |-> "none"]
NoDecOut == [err |-> "none", val |-> VNull, hdr |-> ZeroHeader, gets |-> 0, opens |-> 0]

Goroutines == {1, 2}

IdleCall == [pc |-> "idle", in |-> VNull, f0 |-> FALSE, flags |-> <<>>, raced |-> FALSE,
             out |-> [err |-> "none", bytes |-> <<>>], after |-> VNull]

ConcInit ==
    /\ thr = [g \in Goroutines |-> IdleCall]
    /\ nflips = 0

NoRequest == [method |-> <<>>, ct |-> <<>>, body |-> <<>>, accept |-> <<>>]
NoResponse == [branch |-> "none", calls |-> {}, status |-> 0, mt |-> <<>>, body |-> <<>>]

\* the other components run on one build: the numbers they convert fit
NumIdle ==
    /\ arch = "amd64"
    /\ numPC = "idle"
    /\ numIn = VNull
    /\ numOut = [err |-> "none", bytes |-> <<>>]

RestInit ==
    /\ keyring = <<>>
    /\ store = {}
    /\ req = NoRequest
    /\ resp = NoResponse

SecInit ==
    /\ spc = "idle"
    /\ sealed = {}
    /\ drawn = 0
    /\ encArgs = NoEncArgs
    /\ blob = [err |-> "none", bytes |-> <<>>]
    /\ decIn = NoDecIn
    /\ decOut = NoDecOut

----------------------------------------------------------------------------
(* The codec's state machine: a caller that sets the flag and calls the    *)
(* codec                                                                    *)

NoResult == [err |-> "none", val |-> VNull]
NoOutput == [err |-> "none", bytes |-> <<>>]

CodecInit ==
    /\ PreserveComments = FALSE
    /\ pc = "idle"
    /\ arg = VNull
    /\ out = NoOutput
    /\ encPC = FALSE
    /\ wire = <<>>
    /\ res = NoResult
    /\ decPC = FALSE
    /\ own = FALSE

Init ==
    /\ CodecInit /\ FrameInit /\ StripIdle /\ JsonInit /\ SecInit /\ ConcInit
    /\ NumIdle /\ RestInit

\* jolt.PreserveComments = b, between codec calls
SetPreserveComments(b) ==
    /\ PreserveComments' = b
    /\ UNCHANGED <<pc, arg, out, encPC, wire, res, decPC, own>>
    /\ UNCHANGED <<frameVars, stripVars, jsonVars, secVars, concVars, numVars, restVars>>

\* out, err := jolt.EncodeBinary(v)
Encode(v) ==
    /\ pc = "idle"
    /\ pc' = "encoded"
    /\ arg' = v
    /\ out' = EncodeBinary(v, PreserveComments)
    /\ encPC' = PreserveComments
    /\ wire' = <<>>
    /\ res' = NoResult
    /\ decPC' = FALSE
    /\ own' = FALSE
    /\ UNCHANGED PreserveComments
    /\ UNCHANGED <<frameVars, stripVars, jsonVars, secVars, concVars, numVars, restVars>>

\* jolt.DecodeBinary(bin) on the bytes the last EncodeBinary returned
DecodeOutput ==
    /\ pc = "encoded"
    /\ out.err = ""
    /\ pc' = "decoded"
    /\ wire' = out.bytes
    /\ res' = DecodeBinary(out.bytes, PreserveComments)
    /\ decPC' = PreserveComments
    /\ own' = TRUE
    /\ UNCHANGED <<PreserveComments, arg, out, encPC>>
    /\ UNCHANGED <<frameVars, stripVars, jsonVars, secVars, concVars, numVars, restVars>>

\* jolt.DecodeBinary(bin[:k]) on the first k bytes of what the last
\* EncodeBinary returned, k less than their number
DecodePrefix(k) ==
    /\ pc = "encoded"
    /\ out.err = ""
    /\ k < Len(out.bytes)
    /\ pc' = "decoded"
    /\ wire' = SubSeq(out.bytes, 1, k)
    /\ res' = DecodeBinary(SubSeq(out.bytes, 1, k), PreserveComments)
    /\ decPC' = PreserveComments
    /\ own' = FALSE
    /\ UNCHANGED <<PreserveComments, arg, out, encPC>>
    /\ UNCHANGED <<frameVars, stripVars, jsonVars, secVars, concVars, numVars, restVars>>

\* jolt.DecodeBinary(b) on bytes received from elsewhere
DecodeWire(b) ==
    /\ pc = "idle"
    /\ pc' = "decoded"
    /\ arg' = VNull
    /\ out' = NoOutput
    /\ encPC' = FALSE
    /\ wire' = b
    /\ res' = DecodeBinary(b, PreserveComments)
    /\ decPC' = PreserveComments
    /\ own' = FALSE
    /\ UNCHANGED PreserveComments
    /\ UNCHANGED <<frameVars, stripVars, jsonVars, secVars, concVars, numVars, restVars>>

\* the caller drops the results of its last calls
Return ==
    /\ pc # "idle"
    /\ pc' = "idle"
    /\ arg' = VNull
    /\ out' = NoOutput
    /\ encPC' = FALSE
    /\ wire' = <<>>
    /\ res' = NoResult
    /\ decPC' = FALSE
    /\ own' = FALSE
    /\ UNCHANGED PreserveComments
    /\ UNCHANGED <<frameVars, stripVars, jsonVars, secVars, concVars, numVars, restVars>>

Next ==
    \/ \E b \in BOOLEAN : SetPreserveComments(b)
    \/ \E v \in Values : Encode(v)
    \/ DecodeOutput
    \/ \E k \in 0..(Len(out.bytes) - 1) : DecodePrefix(k)
    \/ \E b \in WireDocs : DecodeWire(b)
    \/ Return

Spec == Init /\ [][Next]_vars

----------------------------------------------------------------------------
(* The frame transport's state machine: one writer and one reader on a     *)
(* stream                                                                   *)

\* WriteFrame(w, payload) on a writer that accepts every byte
WriteFrameCall(payload) ==
    /\ Len(written) < MaxFrames
    /\ stream' = stream \o frameBytes(payload)
    /\ written' = Append(written, payload)
    /\ UNCHANGED <<rd, got, ferr>>
    /\ UNCHANGED <<codecVars, stripVars, jsonVars, secVars, concVars, numVars, restVars>>

\* buf, err := ReadFrame(r)
ReadFrameCall ==
    /\ LET r == ReadFrame(stream, rd)
       IN /\ rd' = r.consumed
          /\ ferr' = r.err
          /\ got' = IF r.err = "" THEN Append(got, r.buf) ELSE got
    /\ UNCHANGED <<stream, written>>
    /\ UNCHANGED <<codecVars, stripVars, jsonVars, secVars, concVars, numVars, restVars>>

NextFrames ==
    \/ \E p \in Payloads : WriteFrameCall(p)
    \/ ReadFrameCall

SpecFrames == Init /\ [][NextFrames]_vars

----------------------------------------------------------------------------
(* One call of StripJSONComments, an iteration of its loop at a time *)

InitStrip ==
    /\ CodecInit /\ FrameInit /\ JsonInit /\ SecInit /\ ConcInit
    /\ NumIdle /\ RestInit
    /\ stripIn \in StripInputs
    /\ si = 1
    /\ state = sNorm
    /\ stripOut = <<>>
    /\ stripDone = FALSE

\* one iteration of `for i := 0; i < len(in); i++`
StripLoop ==
    /\ ~stripDone
    /\ si <= Len(stripIn)
    /\ LET r == stripStep(state, stripIn[si])
       IN /\ state' = r.state
          /\ stripOut' = stripOut \o r.emit
    /\ si' = si + 1
    /\ UNCHANGED <<stripIn, stripDone>>
    /\ UNCHANGED <<codecVars, frameVars, jsonVars, secVars, concVars, numVars, restVars>>

\* the statements after the loop
StripReturn ==
    /\ ~stripDone
    /\ si > Len(stripIn)
    /\ stripOut' = stripOut \o stripTail(state)
    /\ stripDone' = TRUE
    /\ UNCHANGED <<stripIn, si, state>>
    /\ UNCHANGED <<codecVars, frameVars, jsonVars, secVars, concVars, numVars, restVars>>

NextStrip == StripLoop \/ StripReturn

SpecStrip == InitStrip /\ [][NextStrip]_vars

----------------------------------------------------------------------------
(* The JSON compatibility functions' state machine: a caller that marshals *)
(* a value and parses JSON text                                             *)

\* JSON texts parsed as they are
JsonDocs ==
    {
     \* S3 of the specification
     <<123, 34, 120, 34, 58, 34, 110, 111, 116, 32, 47, 47, 32, 97, 32, 99, 111, 109, 109, 101, 110, 116, 34, 44, 34, 121, 34, 58, 34, 47, 42, 32, 97, 108, 115, 111, 32, 110, 111, 116, 32, 42, 47, 34, 125>>,
     \* a line comment after the value
     <<123, 34, 97, 34, 58, 49, 125, 32, 47, 47, 32, 99, 10>>,
     \* a block comment before the value
     <<47, 42, 32, 99, 32, 42, 47, 32, 91, 116, 114, 117, 101, 44, 32, 110, 117, 108, 108, 93>>,
     \* an object that is not closed
     <<123, 34, 97, 34, 58>>}

\* js, err := jolt.MarshalJSONCompat(v, indent)
MarshalCall(v, indent) ==
    /\ jpc = "idle"
    /\ jpc' = "marshalled"
    /\ jarg' = v
    /\ jindent' = indent
    /\ jtext' = MarshalJSONCompat(v, indent)
    /\ jres' = NoResult
    /\ UNCHANGED <<codecVars, frameVars, stripVars, secVars, concVars, numVars, restVars>>

\* var out any; err := jolt.UnmarshalJSONWithComments(js, &out) on the text
\* the last MarshalJSONCompat returned
UnmarshalOutput ==
    /\ jpc = "marshalled"
    /\ jtext.err = ""
    /\ jpc' = "parsed"
    /\ jres' = UnmarshalJSONWithComments(jtext.bytes)
    /\ UNCHANGED <<jarg, jindent, jtext>>
    /\ UNCHANGED <<codecVars, frameVars, stripVars, secVars, concVars, numVars, restVars>>

\* var out any; err := jolt.UnmarshalJSONWithComments(d, &out) on text from
\* elsewhere
UnmarshalText(d) ==
    /\ jpc = "idle"
    /\ jpc' = "parsed"
    /\ jarg' = VNull
    /\ jindent' = FALSE
    /\ jtext' = [err |-> "none", bytes |-> d]
    /\ jres' = UnmarshalJSONWithComments(d)
    /\ UNCHANGED <<codecVars, frameVars, stripVars, secVars, concVars, numVars, restVars>>

\* the caller drops the results of its last calls
JsonReturn ==
    /\ jpc # "idle"
    /\ jpc' = "idle"
    /\ jarg' = VNull
    /\ jindent' = FALSE
    /\ jtext' = NoOutput
    /\ jres' = NoResult
    /\ UNCHANGED <<codecVars, frameVars, stripVars, secVars, concVars, numVars, restVars>>

NextJson ==
    \/ \E v \in Values, indent \in BOOLEAN : MarshalCall(v, indent)
    \/ UnmarshalOutput
    \/ \E d \in JsonDocs : UnmarshalText(d)
    \/ JsonReturn

SpecJson == Init /\ [][NextJson]_vars


----------------------------------------------------------------------------
(* JOLT-SEC's state machine: a sender that seals one document and a        *)
(* receiver that is handed the blob, as it was made or with one of its     *)
(* parts replaced by somebody who has no key                               *)

sK1 == <<107, 49>>
sK2 == <<107, 50>>
sCtx == <<99, 116, 120>>
sDemo == <<100, 101, 109, 111>>
sEvil == <<101, 118, 105, 108>>
sNone == <<78, 79, 78, 69>>

key1 == [i \in 1..keyLen32 |-> i - 1]
key2 == [i \in 1..keyLen32 |-> 255 - i]
keyShort == [i \in 1..16 |-> i]

SecKeyrings ==
    {<<[kid |-> sK1, key |-> key1]>>,
     <<[kid |-> sK1, key |-> keyShort]>>,
     <<>>,
     <<[kid |-> sK1, key |-> key1], [kid |-> sK2, key |-> key2]>>}

SecHeaders ==
    {Header(a, k, e) :
        a \in {AlgXChaCha20Poly1305, AlgAES256GCM, sNone},
        k \in {sK1, sK2},
        e \in {ExtraNil, ExtraOf(<<>>), ExtraOf(<<[ek |-> sCtx, ev |-> sDemo]>>)}}

SecValues ==
    {VNull, VStr(sA), VObj(<<KV(sA, VInt(1, 1))>>), VArr(<<VBool(TRUE), VStr(sB)>>),
     VEnv(EmptyMeta, VObj(<<KV(sA, VInt(1, 1))>>)),
     VEnv(VMeta(sA, <<>>, <<>>, VNull, VStrings(TRUE, <<>>), VStr(sA)), VNull),
     Nest("Arr", MaxDepth + 1, VNull)}

\* plaintexts sealed by hand: a JOLT-B document, no bytes, a Str cut short
\* and an unknown tag
RawPlaintexts == {<<tagNull>>, <<>>, <<tagStr, 5, 97>>, <<255>>}

\* what rand.Reader gives
SecRandom == {[i \in 1..nonceLenX |-> i], [i \in 1..nonceLenX |-> 200 - i]}

\* the five length-prefixed fields of a blob that EncryptJOLT made
jsecFields(b) ==
    The({[magic |-> SubSeq(b, 1, 4), version |-> <<b[5]>>, alg |-> r.fields[1],
          kid |-> r.fields[2], nonce |-> r.fields[3], aad |-> r.fields[4],
          ct |-> r.fields[5]] :
         r \in {readVarFields(b, 6, 5)}})

SecParts == {"magic", "version", "alg", "kid", "nonce", "aad", "ct"}
SecHows == {"flip", "last", "drop", "grow", "swap", "extra", "noextra", "kid", "alg"}

otherAlg(a) == IF a = AlgXChaCha20Poly1305 THEN AlgAES256GCM ELSE AlgXChaCha20Poly1305
otherKid(k) == IF k = sK1 THEN sK2 ELSE sK1

\* the content c of a part replaced: one byte changed, the last byte
\* dropped, a space added, or (alg, kid) the other name; for the additional
\* data, the header written again with a member changed.  The result is c
\* where the replacement does not apply.
replaced(part, how, c) ==
    LET h == headerFromJSON(c).hdr IN
    CASE how = "flip" /\ Len(c) > 0 -> [c EXCEPT ![1] = (c[1] + 1) % 256]
      [] how = "last" /\ Len(c) > 0 /\ part \in {"nonce", "aad", "ct"} ->
            [c EXCEPT ![Len(c)] = (c[Len(c)] + 1) % 256]
      [] how = "drop" /\ Len(c) > 0 /\ part \notin {"magic", "version"} ->
            SubSeq(c, 1, Len(c) - 1)
      [] how = "grow" /\ part \notin {"magic", "version"} -> c \o <<32>>
      [] how = "swap" /\ part = "alg" -> otherAlg(c)
      [] how = "swap" /\ part = "kid" -> otherKid(c)
      [] how = "extra" /\ part = "aad" ->
            headerJSON(Header(h.Alg, h.KeyID, ExtraOf(<<[ek |-> sCtx, ev |-> sEvil]>>)))
      [] how = "noextra" /\ part = "aad" -> headerJSON(Header(h.Alg, h.KeyID, ExtraNil))
      [] how = "kid" /\ part = "aad" -> headerJSON(Header(h.Alg, otherKid(h.KeyID), h.Extra))
      [] how = "alg" /\ part = "aad" -> headerJSON(Header(otherAlg(h.Alg), h.KeyID, h.Extra))
      [] OTHER -> c

\* the blob b with one part replaced, the length prefix following the content
tampered(b, part, how) ==
    The({The({g.magic \o g.version \o writeVarBytes(g.alg) \o writeVarBytes(g.kid)
              \o writeVarBytes(g.nonce) \o writeVarBytes(g.aad) \o writeVarBytes(g.ct) :
              g \in {[f EXCEPT ![part] = replaced(part, how, f[part])]}}) :
         f \in {jsecFields(b)}})

\* EncryptJOLT(v, hdr, kr)
Encrypt(v, hdr, kr, rnd) ==
    /\ spc = "idle"
    /\ LET r == EncryptJOLT(v, hdr, kr, rnd, PreserveComments) IN
        /\ blob' = [err |-> r.err, bytes |-> r.bytes]
        /\ drawn' = drawn + r.drew
        /\ sealed' = sealed \cup r.seals
    /\ encArgs' = [v |-> v, hdr |-> hdr, kr |-> kr, rnd |-> rnd]
    /\ spc' = "sealed"
    /\ UNCHANGED <<decIn, decOut>>
    /\ UNCHANGED <<codecVars, frameVars, stripVars, jsonVars, concVars, numVars, restVars>>

\* a key holder building a blob by hand, as the golden test does: the
\* plaintext pt is sealed as it is, under a nonce the builder chose
SealRaw(pt, hdr, kr, rnd) ==
    /\ spc = "idle"
    /\ hdr.Alg \in DOMAIN suites
    /\ Get(kr, hdr.KeyID).err = ""
    /\ Len(Get(kr, hdr.KeyID).key) = suites[hdr.Alg].keyLen
    /\ \E key \in {Get(kr, hdr.KeyID).key}, nonce \in {SubSeq(rnd, 1, suites[hdr.Alg].nonceLen)},
          aad \in {headerJSON(hdr)} :
        \E ct \in {Seal(key, nonce, pt, aad)} :
            /\ blob' = [err |-> "", bytes |-> jsecBlob(hdr.Alg, hdr.KeyID, nonce, aad, ct)]
            /\ sealed' = sealed \cup {[key |-> key, nonce |-> nonce, aad |-> aad,
                                       pt |-> pt, ct |-> ct]}
    /\ encArgs' = [v |-> VNull, hdr |-> hdr, kr |-> kr, rnd |-> rnd]
    /\ spc' = "sealedRaw"
    /\ UNCHANGED <<drawn, decIn, decOut>>
    /\ UNCHANGED <<codecVars, frameVars, stripVars, jsonVars, concVars, numVars, restVars>>

\* DecryptJOLT(blob, kr) on the blob as it was made
Decrypt(kr) ==
    /\ spc \in {"sealed", "sealedRaw"}
    /\ blob.err = ""
    /\ decIn' = [bytes |-> blob.bytes, kr |-> kr, part |-> "none", how |-> "none"]
    /\ decOut' = DecryptJOLT(blob.bytes, kr, sealed, PreserveComments)
    /\ spc' = IF spc = "sealed" THEN "opened" ELSE "openedRaw"
    /\ UNCHANGED <<sealed, drawn, encArgs, blob>>
    /\ UNCHANGED <<codecVars, frameVars, stripVars, jsonVars, concVars, numVars, restVars>>

\* DecryptJOLT(b, kr) on the blob with one part replaced
DecryptTampered(part, how, kr) ==
    /\ spc = "sealed"
    /\ blob.err = ""
    /\ \E b \in {tampered(blob.bytes, part, how)} :
        /\ b # blob.bytes
        /\ decIn' = [bytes |-> b, kr |-> kr, part |-> part, how |-> how]
        /\ decOut' = DecryptJOLT(b, kr, sealed, PreserveComments)
    /\ spc' = "opened"
    /\ UNCHANGED <<sealed, drawn, encArgs, blob>>
    /\ UNCHANGED <<codecVars, frameVars, stripVars, jsonVars, concVars, numVars, restVars>>

NextSec ==
    \/ \E v \in SecValues, hdr \in SecHeaders, kr \in SecKeyrings, rnd \in SecRandom :
           Encrypt(v, hdr, kr, rnd)
    \/ \E pt \in RawPlaintexts, hdr \in SecHeaders, kr \in SecKeyrings, rnd \in SecRandom :
           SealRaw(pt, hdr, kr, rnd)
    \/ \E kr \in {encArgs.kr, <<>>} : Decrypt(kr)
    \/ \E part \in SecParts, how \in SecHows, kr \in {encArgs.kr, <<>>} :
           DecryptTampered(part, how, kr)

SpecSec == Init /\ [][NextSec]_vars
----------------------------------------------------------------------------
(* Goroutines calling EncodeBinary while another goroutine writes          *)
(* PreserveComments.  A call is interleaved with the others at its reads   *)
(* of the flag, the only accesses it makes to memory it shares.            *)

\* how often the flag is written
MaxFlips == 2

cmtA == VObj(<<KV(CommentKey, VStr(sA))>>)
cmtB == VObj(<<KV(CommentKey, VStr(sB))>>)

\* the documents encoded: Map and map[string]any are listed in the orders in
\* which a range statement may visit their entries
ConcValues ==
    {VStr(sA),
     VObj(<<KV(CommentKey, VStr(sA)), KV(sA, cmtB)>>),
     VArr(<<cmtA, cmtB>>),
     VSet(<<cmtA, VStr(sA)>>),
     VEnv(EmptyMeta, VObj(<<KV(CommentKey, VStr(sA)), KV(sB, VInt(1, 1))>>)),
     VObj(<<KV(sA, cmtA), KV(sB, VNull)>>),
     VObj(<<KV(sB, VNull), KV(sA, cmtA)>>),
     VMap(<<MKV(VStr(sA), cmtA), MKV(VStr(sB), VNull)>>),
     VMap(<<MKV(VStr(sB), VNull), MKV(VStr(sA), cmtA)>>),
     VMap(<<MKV(VInt(1, 1), VStr(sA)), MKV(VInt(1, 2), VStr(sB))>>),
     VMap(<<MKV(VInt(1, 2), VStr(sB)), MKV(VInt(1, 1), VStr(sA))>>),
     Nest("Obj", MaxDepth + 1, VNull)}

\* go func() { out, err = jolt.EncodeBinary(v) }(): the call begins
Call(g, v) ==
    /\ thr[g].pc = "idle"
    /\ thr' = [thr EXCEPT ![g] = [IdleCall EXCEPT !.pc = "run", !.in = v,
                                                   !.f0 = PreserveComments]]
    /\ UNCHANGED nflips
    /\ UNCHANGED <<codecVars, frameVars, stripVars, jsonVars, secVars, numVars, restVars>>

\* `if !PreserveComments` of the next map[string]any the call meets
ReadFlag(g) ==
    /\ thr[g].pc = "run"
    /\ encodeRace(thr[g].in, 0, thr[g].flags).short
    /\ thr' = [thr EXCEPT ![g].flags = Append(@, PreserveComments)]
    /\ UNCHANGED nflips
    /\ UNCHANGED <<codecVars, frameVars, stripVars, jsonVars, secVars, numVars, restVars>>

\* the call returns
Finish(g) ==
    /\ thr[g].pc = "run"
    /\ \E r \in {encodeRace(thr[g].in, 0, thr[g].flags)} :
        /\ ~r.short
        /\ thr' = [thr EXCEPT ![g].pc = "done",
                              ![g].out = [err |-> r.err, bytes |-> r.bytes],
                              ![g].after = r.after]
    /\ UNCHANGED nflips
    /\ UNCHANGED <<codecVars, frameVars, stripVars, jsonVars, secVars, numVars, restVars>>

\* jolt.PreserveComments = !jolt.PreserveComments in another goroutine
Flip ==
    /\ nflips < MaxFlips
    /\ nflips' = nflips + 1
    /\ PreserveComments' = ~PreserveComments
    /\ thr' = [g \in Goroutines |->
                 IF thr[g].pc = "run" THEN [thr[g] EXCEPT !.raced = TRUE] ELSE thr[g]]
    /\ UNCHANGED <<pc, arg, out, encPC, wire, res, decPC, own>>
    /\ UNCHANGED <<frameVars, stripVars, jsonVars, secVars, numVars, restVars>>

NextConc ==
    \/ \E g \in Goroutines, v \in ConcValues : Call(g, v)
    \/ \E g \in Goroutines : ReadFlag(g)
    \/ \E g \in Goroutines : Finish(g)
    \/ Flip

SpecConc == Init /\ [][NextConc]_vars

----------------------------------------------------------------------------
(* EncodeBinary on native numbers, on either build *)

\* floats holding integers, around zero and around the bounds of int64
NativeFloats ==
    {VFloat(n) : n \in (-8..8) \cup {MinInt64, MaxInt64, MaxInt64 + 1, MinInt64 - 1,
                                      2 * MaxInt64, 2 * MinInt64}}

\* floats holding eighths, quarters and halves
NativeFracs == {VFrac(n, d) : n \in {-7, -5, -3, -1, 1, 3, 5, 7}, d \in {2, 4, 8}}

NativeInts ==
    {VInt64(n) : n \in {-2, -1, 0, 1, 2, MinInt64, MaxInt64}}
    \cup {VUint64(n) : n \in {0, 1, MaxInt64, MaxInt64 + 1, MaxUint64}}

Natives == NativeFloats \cup NativeFracs \cup NativeInts

InitNum ==
    /\ CodecInit /\ FrameInit /\ StripIdle /\ JsonInit /\ SecInit /\ ConcInit /\ RestInit
    /\ arch \in Archs
    /\ numPC = "idle"
    /\ numIn = VNull
    /\ numOut = [err |-> "none", bytes |-> <<>>]

\* out, err := jolt.EncodeBinary(x), x a native number
EncodeNative(x) ==
    /\ numPC = "idle"
    /\ numPC' = "done"
    /\ numIn' = x
    /\ numOut' = EncodeBinary(x, PreserveComments)
    /\ UNCHANGED arch
    /\ UNCHANGED <<codecVars, frameVars, stripVars, jsonVars, secVars, concVars, restVars>>

\* the caller drops the result
NumReturn ==
    /\ numPC = "done"
    /\ numPC' = "idle"
    /\ numIn' = VNull
    /\ numOut' = [err |-> "none", bytes |-> <<>>]
    /\ UNCHANGED arch
    /\ UNCHANGED <<codecVars, frameVars, stripVars, jsonVars, secVars, concVars, restVars>>

NextNum ==
    \/ \E x \in Natives : EncodeNative(x)
    \/ NumReturn

SpecNum == InitNum /\ [][NextNum]_vars

----------------------------------------------------------------------------
(* The REST service's state machine: clients that send requests to /orders *)

\* how many orders the store takes and how many nonces the service draws
MaxOrders == 1

sGET == <<71, 69, 84>>
sStamp == <<50, 48, 50, 53, 45, 48, 49, 45, 48, 49, 84, 48, 48, 58, 48, 48, 58, 48, 48, 90>>

RestKeyrings == {<<>>, <<[kid |-> serverKid, key |-> key1]>>}

\* the documents clients send
orderA == VObj(<<KV(sDollarId, VStr(sA))>>)
orderEnv == VEnv([ZeroMeta EXCEPT !.Type = sA], orderA)

\* what a client holding key1 (or key2, which the service does not hold)
\* seals: with the AAD of this request, without AAD, with that of another
ClientHeaders ==
    {Header(serverAlg, serverKid, ExtraOf(<<[ek |-> sM, ev |-> sPOST],
                                            [ek |-> sP, ev |-> sOrders]>>)),
     Header(serverAlg, serverKid, ExtraNil),
     Header(serverAlg, serverKid, ExtraOf(<<[ek |-> sM, ev |-> sGET],
                                            [ek |-> sP, ev |-> sOrders]>>)),
     Header(serverAlg, sK2, ExtraNil)}

ClientSealings ==
    {EncryptJOLT(orderA, h, <<[kid |-> serverKid, key |-> key1], [kid |-> sK2, key |-> key2]>>,
                 [i \in 1..nonceLenX |-> 200 - i], FALSE) : h \in ClientHeaders}

JsonBodies ==
    {<<123, 34, 36, 105, 100, 34, 58, 34, 97, 34, 125>>,
     <<123, 34, 97, 34, 58, 49, 125, 32, 47, 47, 32, 99>>,
     <<123, 34, 36, 109, 101, 116, 97, 34, 58, 123, 34, 116, 121, 112, 101, 34, 58, 34, 97, 34, 125, 44, 34, 36, 98, 111, 100, 121, 34, 58, 123, 34, 36, 105, 100, 34, 58, 34, 98, 34, 125, 125>>,
     <<91>>}

JoltBodies ==
    {EncodeBinary(orderA, FALSE).bytes, EncodeBinary(orderEnv, FALSE).bytes,
     <<tagMap, 1, tagBin, 0, tagNull>>, <<>>}

RestBodies == JsonBodies \cup JoltBodies \cup {c.bytes : c \in ClientSealings}

RestContentTypes ==
    {mtJSON, mtJOLT, mtJB, mtJSEC,
     <<32, 65, 112, 112, 108, 105, 99, 97, 116, 105, 111, 110, 47, 74, 79, 76, 84, 45, 83, 69, 67, 32>>,
     <<97, 112, 112, 108, 105, 99, 97, 116, 105, 111, 110, 47, 106, 115, 111, 110, 59, 32, 99, 104, 97, 114, 115, 101, 116, 61, 117, 116, 102, 45, 56>>,
     <<116, 101, 120, 116, 47, 112, 108, 97, 105, 110>>}

RestAccepts == {<<>>, mtJOLT, mtJSEC}

InitRest ==
    /\ CodecInit /\ FrameInit /\ StripIdle /\ JsonInit /\ ConcInit /\ NumIdle
    /\ spc = "idle"
    /\ sealed = UNION {c.seals : c \in ClientSealings}
    /\ drawn = 0
    /\ encArgs = NoEncArgs
    /\ blob = [err |-> "none", bytes |-> <<>>]
    /\ decIn = NoDecIn
    /\ decOut = NoDecOut
    /\ keyring \in RestKeyrings
    /\ store = {}
    /\ req = NoRequest
    /\ resp = NoResponse

Served(branch, calls, status, mt, body) ==
    [branch |-> branch, calls |-> calls, status |-> status, mt |-> mt, body |-> body]

\* the handler of /orders: handleCreate when the method is POST.  rnd is
\* what rand.Reader gives and stamp the time, should the response be sealed
Orders(method, ct, body, accept, rnd, stamp) ==
    /\ Cardinality(store) < MaxOrders
    /\ drawn < MaxOrders
    /\ req' = [method |-> method, ct |-> ct, body |-> body, accept |-> accept]
    /\ IF method # sPOST
       THEN /\ resp' = Served("none", {}, 405, <<>>, <<>>)
            /\ UNCHANGED <<store, sealed, drawn>>
       ELSE \E d \in {decodeRequest(ToLower(TrimSpace(ct)), body, keyring, sealed,
                                    PreserveComments)} :
              IF d.status # 0
              THEN /\ resp' = Served(d.branch, d.calls, d.status, <<>>, <<>>)
                   /\ UNCHANGED <<store, sealed, drawn>>
              ELSE \E jb \in {EncodeBinary(d.v, PreserveComments)},
                      \* time.Now().UnixNano(): later than at any request before
                      id \in {IF extractID(d.v) = <<>>
                              THEN sAuto \o digitsOf(Cardinality(store) + 1)
                              ELSE extractID(d.v)} :
                     IF jb.err # ""
                     THEN /\ resp' = Served(d.branch, d.calls, 500, <<>>, <<>>)
                          /\ UNCHANGED <<store, sealed, drawn>>
                     ELSE /\ store' = put(store, id, requestMeta(d.v), jb.bytes)
                          /\ \E a \in {respondCreated(jb.bytes, id, accept, keyring, rnd,
                                                       stamp, PreserveComments)} :
                                /\ resp' = Served(d.branch, d.calls, a.status, a.mt, a.body)
                                /\ sealed' = sealed \cup a.seals
                                /\ drawn' = drawn + a.drew
    /\ UNCHANGED <<keyring, spc, encArgs, blob, decIn, decOut>>
    /\ UNCHANGED <<codecVars, frameVars, stripVars, jsonVars, concVars, numVars>>

NextRest ==
    \E method \in {sPOST, sGET}, ct \in RestContentTypes, body \in RestBodies,
       accept \in RestAccepts :
        Orders(method, ct, body, accept, [i \in 1..nonceLenX |-> i], sStamp)

SpecRest == InitRest /\ [][NextRest]_vars

----------------------------------------------------------------------------
(* Vocabulary of the properties *)

Max2(a, b) == IF a > b THEN a ELSE b

MaxOf(S) == IF S = {} THEN 0 ELSE CHOOSE x \in S : \A y \in S : y <= x

Range(s) == {s[i] : i \in 1..Len(s)}

\* structural equality of two values: Int by value, Set and Map and Obj
\* regardless of the order of their entries
RECURSIVE StructEq(_, _)
StructEq(a, b) ==
    IF a.t # b.t THEN FALSE
    ELSE CASE a.t = "Int" -> a.n = b.n
      [] a.t = "Arr" ->
            /\ Len(a.items) = Len(b.items)
            /\ \A i \in 1..Len(a.items) : StructEq(a.items[i], b.items[i])
      [] a.t = "Set" ->
            /\ Len(a.items) = Len(b.items)
            /\ \E f \in Perms(Len(a.items)) :
                  \A i \in 1..Len(a.items) : StructEq(a.items[i], b.items[f[i]])
      [] a.t = "Obj" ->
            /\ {e.key : e \in Range(a.kv)} = {e.key : e \in Range(b.kv)}
            /\ \A e \in Range(a.kv) : StructEq(e.val, ObjGet(b.kv, e.key))
      [] a.t = "Map" ->
            /\ Len(a.mkv) = Len(b.mkv)
            /\ \E f \in Perms(Len(a.mkv)) :
                  \A i \in 1..Len(a.mkv) :
                     /\ StructEq(a.mkv[i].mk, b.mkv[f[i]].mk)
                     /\ StructEq(a.mkv[i].mv, b.mkv[f[i]].mv)
      [] a.t = "Env" ->
            /\ a.meta.Type = b.meta.Type
            /\ a.meta.Schema = b.meta.Schema
            /\ a.meta.Version = b.meta.Version
            /\ a.meta.Created = b.meta.Created
            /\ a.meta.Features.strs = b.meta.Features.strs
            /\ StructEq(a.meta.Sig, b.meta.Sig)
            /\ StructEq(a.body, b.body)
      [] OTHER -> a = b

\* whether some Obj of v has a "$comment" key
RECURSIVE HasComment(_)
HasComment(v) ==
    CASE v.t \in {"Arr", "Set"} -> \E x \in Range(v.items) : HasComment(x)
      [] v.t = "Obj" -> \E e \in Range(v.kv) : e.key = CommentKey \/ HasComment(e.val)
      [] v.t = "Map" -> \E e \in Range(v.mkv) : HasComment(e.mk) \/ HasComment(e.mv)
      [] v.t = "Env" -> HasComment(v.body) \/ HasComment(v.meta.Sig)
      [] OTHER -> FALSE

\* the number of container levels of v on the wire; the outermost is level 1
RECURSIVE Levels(_)
Levels(v) ==
    CASE v.t \in {"Arr", "Set"} -> 1 + MaxOf({Levels(x) : x \in Range(v.items)})
      [] v.t = "Obj" -> 1 + MaxOf({Levels(e.val) : e \in Range(v.kv)})
      [] v.t = "Map" ->
            1 + MaxOf({Max2(Levels(e.mk), Levels(e.mv)) : e \in Range(v.mkv)})
      [] v.t = "Env" ->
            1 + Max2(1 + Max2(IF v.meta.Features.isnil THEN 0 ELSE 1,
                              Levels(v.meta.Sig)),
                     Levels(v.body))
      [] OTHER -> 0

\* the byte strings of n consecutive encoded values of b, the first at pos
RECURSIVE WireItems(_, _, _)
WireItems(b, pos, n) ==
    IF n = 0 THEN <<>>
    ELSE LET e == decodeAny(b, pos, 0, TRUE).pos
         IN <<SubSeq(b, pos, e - 1)>> \o WireItems(b, e, n - 1)

\* the elements of an encoded Arr or Set, or the keys and values of an
\* encoded Map alternating, as the byte strings they are on the wire
WireElems(b, per) ==
    LET count == readUvarint(b, 2) IN WireItems(b, count.pos, per * count.x)

\* the entries of an encoded Obj in wire order: [key, bytes]
RECURSIVE WireObjFrom(_, _, _)
WireObjFrom(b, pos, n) ==
    IF n = 0 THEN <<>>
    ELSE LET ln == readUvarint(b, pos)
             k == readN(b, ln.pos, ln.x)
             e == decodeAny(b, k.pos, 0, TRUE).pos
         IN <<[key |-> k.bytes, bytes |-> SubSeq(b, k.pos, e - 1)]>>
            \o WireObjFrom(b, e, n - 1)

WireObjEntries(b) ==
    LET count == readUvarint(b, 2) IN WireObjFrom(b, count.pos, count.x)

Permuted(s, f) == [i \in 1..Len(s) |-> s[f[i]]]

----------------------------------------------------------------------------
(* Properties of the codec *)

\* C1: with PreserveComments the same for both calls, every value without a
\* "$comment" key and nested within MaxDepth encodes without error, and
\* decoding the bytes succeeds with a value structurally equal to it.
C1_RoundTrip ==
    /\ (pc = "encoded" /\ ~HasComment(arg) /\ Levels(arg) <= MaxDepth) => out.err = ""
    /\ (pc = "decoded" /\ own /\ encPC = decPC /\ ~HasComment(arg)
           /\ Levels(arg) <= MaxDepth)
       => (res.err = "" /\ StructEq(res.val, arg))

\* C2: the pairs of an encoded Obj are the pairs the encoder kept, in
\* strictly ascending order of the key bytes, and the bytes are the same for
\* every order in which the object's pairs are held.
C2_ObjKeysAscending ==
    (pc = "encoded" /\ arg.t = "Obj" /\ out.err = "") =>
        LET es == WireObjEntries(out.bytes)
            kept == {e \in Range(arg.kv) : encPC \/ e.key # CommentKey}
        IN /\ out.bytes[1] = tagObj
           /\ \A i \in 1..(Len(es) - 1) : BytesCompare(es[i].key, es[i + 1].key) < 0
           /\ Range(es) = {[key |-> e.key, bytes |-> encodeAny(e.val, 1, encPC).bytes] :
                              e \in kept}
           /\ \A f \in Perms(Len(arg.kv)) :
                 EncodeBinary(VObj(Permuted(arg.kv, f)), encPC) = out

\* C2 witness: an object held with a larger key before a smaller one has
\* been encoded.
C2_Witness ==
    /\ pc = "encoded" /\ arg.t = "Obj" /\ out.err = ""
    /\ Len(arg.kv) = MaxElems
    /\ BytesCompare(arg.kv[1].key, arg.kv[2].key) > 0
    /\ Len(WireObjEntries(out.bytes)) = MaxElems

\* C3: an encoded Set holds each distinct encoded element once: the count is
\* the number of distinct encodings and no two emitted elements are equal;
\* ["gift","festival","gift"] is emitted with count 2, festival before gift.
C3_SetDeduplicated ==
    (pc = "encoded" /\ arg.t = "Set" /\ out.err = "") =>
        LET es == WireElems(out.bytes, 1)
            distinct == {encodeAny(x, 1, encPC).bytes : x \in Range(arg.items)}
        IN /\ readUvarint(out.bytes, 2).x = Cardinality(distinct)
           /\ \A i, j \in 1..Len(es) : es[i] = es[j] => i = j
           /\ arg.items = <<VStr(sGift), VStr(sFestival), VStr(sGift)>>
              => es = <<encodeAny(VStr(sFestival), 1, encPC).bytes,
                        encodeAny(VStr(sGift), 1, encPC).bytes>>

\* C4: the elements of an encoded Set are the encodings of its elements in
\* ascending order of their bytes, and the bytes are the same for every
\* permutation of the elements.
C4_SetAscending ==
    (pc = "encoded" /\ arg.t = "Set" /\ out.err = "") =>
        LET es == WireElems(out.bytes, 1)
        IN /\ out.bytes[1] = tagSet
           /\ Len(es) = Len(arg.items)
           /\ \A i \in 1..(Len(es) - 1) : BytesCompare(es[i], es[i + 1]) <= 0
           /\ \E f \in Perms(Len(es)) :
                 \A i \in 1..Len(es) : es[i] = encodeAny(arg.items[f[i]], 1, encPC).bytes
           /\ \A f \in Perms(Len(arg.items)) :
                 EncodeBinary(VSet(Permuted(arg.items, f)), encPC) = out

\* C4 witness: a Set whose elements are held in descending order of their
\* encodings has been encoded.
C4_Witness ==
    /\ pc = "encoded" /\ arg.t = "Set" /\ out.err = ""
    /\ Len(arg.items) = MaxElems
    /\ \A i \in 1..(MaxElems - 1) :
          BytesCompare(encodeAny(arg.items[i], 1, encPC).bytes,
                       encodeAny(arg.items[i + 1], 1, encPC).bytes) > 0

\* C5: the pairs of an encoded Map are in ascending order of the encoded key
\* bytes, and the bytes are the same for every order in which a range over
\* the Map visits its entries.
C5_MapCanonical ==
    (pc = "encoded" /\ arg.t = "Map" /\ out.err = "") =>
        LET es == WireElems(out.bytes, 2)
        IN /\ \A i \in 1..(Len(arg.mkv) - 1) :
                 BytesCompare(es[2 * i - 1], es[2 * i + 1]) <= 0
           /\ \A f \in Perms(Len(arg.mkv)) :
                 EncodeBinary(VMap(Permuted(arg.mkv, f)), encPC) = out

\* C6: the pairs of an encoded Map have pairwise distinct encoded keys, for
\* a Map the caller built and for a Map DecodeBinary returned.
C6_MapKeysUnique ==
    LET Unique(b) ==
            LET es == WireElems(b, 2)
            IN \A i, j \in 1..(Len(es) \div 2) :
                  es[2 * i - 1] = es[2 * j - 1] => i = j
    IN /\ (pc = "encoded" /\ arg.t = "Map" /\ out.err = "") => Unique(out.bytes)
       /\ (pc = "decoded" /\ res.err = "" /\ res.val.t = "Map")
          => Unique(EncodeBinary(res.val, decPC).bytes)

\* C7: Int zero is encoded as the tag and the single length byte 0, and the
\* magnitude of a non-zero Int starts with a non-zero byte.
C7_IntCanonical ==
    (pc = "encoded" /\ arg.t = "Int") =>
        /\ out.err = ""
        /\ arg.n = 0 => out.bytes = <<tagInt, 0>>
        /\ arg.n # 0 => (Len(out.bytes) >= 4 /\ out.bytes[4] # 0)

\* how a document d relates to the document v it was encoded from when
\* "$comment" keys are kept (keep) or dropped: the same shape and scalars,
\* every Obj with the keys of its source, "$comment" among them iff keep
RECURSIVE CommentRel(_, _, _)
CommentRel(v, d, keep) ==
    IF v.t # d.t THEN FALSE
    ELSE CASE v.t = "Obj" ->
            /\ {e.key : e \in Range(d.kv)}
               = {e.key : e \in Range(v.kv)} \ (IF keep THEN {} ELSE {CommentKey})
            /\ \A e \in Range(d.kv) : CommentRel(ObjGet(v.kv, e.key), e.val, keep)
      [] v.t = "Arr" ->
            /\ Len(v.items) = Len(d.items)
            /\ \A i \in 1..Len(v.items) : CommentRel(v.items[i], d.items[i], keep)
      [] v.t = "Set" ->
            /\ Len(v.items) = Len(d.items)
            /\ \E f \in Perms(Len(v.items)) :
                  \A i \in 1..Len(v.items) : CommentRel(v.items[i], d.items[f[i]], keep)
      [] v.t = "Map" ->
            /\ Len(v.mkv) = Len(d.mkv)
            /\ \E f \in Perms(Len(v.mkv)) :
                  \A i \in 1..Len(v.mkv) :
                     /\ StructEq(v.mkv[i].mk, d.mkv[f[i]].mk)
                     /\ CommentRel(v.mkv[i].mv, d.mkv[f[i]].mv, keep)
      [] v.t = "Env" -> CommentRel(v.body, d.body, keep)
      [] OTHER -> StructEq(v, d)

C9_DepthGuard ==
    pc = "decoded" =>
        \A w \in Wrappers, k \in 0..(MaxDepth + 2), x \in WireLeaves :
            wire = NestWire(w, k, x.bytes) =>
                /\ k + x.levels = MaxDepth + 1 => res.err = "TooDeep"
                /\ k + x.levels <= MaxDepth => res.err # "TooDeep"

\* C10: decoding a document whose declared length or element count exceeds
\* MaxBytes fails with TooLarge and returns no value.
C10_MaxBytesEnforced ==
    (pc = "decoded" /\ wire \in OversizeWire) =>
        (res.err = "TooLarge" /\ res.val = VNull)

\* C11: decoding a strict prefix of the bytes EncodeBinary returned, the
\* empty prefix included, fails and returns no value; and DecodeBinary
\* never returns a value together with an error.
C11_PrefixRejected ==
    /\ (pc = "decoded" /\ out.err = "" /\ Len(wire) < Len(out.bytes)
           /\ wire = SubSeq(out.bytes, 1, Len(wire)))
       => (res.err # "" /\ res.val = VNull)
    /\ (pc = "decoded" /\ res.err # "") => res.val = VNull

\* the keys of an encoded meta Obj that the decoder gives a typed field
TypedMetaKeys ==
    {sType, <<115, 99, 104, 101, 109, 97>>, <<118, 101, 114, 115, 105, 111, 110>>,
     <<102, 101, 97, 116, 117, 114, 101, 115>>,
     <<99, 114, 101, 97, 116, 101, 100, 65, 116>>}

\* C20: the Envelope DecodeBinary returns holds the sig of the Envelope that
\* was encoded, and holds sig and every unrecognized key of the meta Obj on
\* the wire with the values they have there.
C20_MetaPreserved ==
    /\ (pc = "decoded" /\ own /\ arg.t = "Env")
       => (res.err = "" /\ res.val.t = "Env"
           /\ StructEq(res.val.meta.Sig, arg.meta.Sig))
    /\ (pc = "decoded" /\ res.err = "" /\ res.val.t = "Env")
       => LET onWire == decodeAny(wire, 2, 1, decPC).val.kv
              held == metaMap(res.val.meta)
          IN \A e \in Range(onWire) :
                e.key \notin TypedMetaKeys
                => (ObjHas(held, e.key) /\ StructEq(ObjGet(held, e.key), e.val))

\* C12: the buffers the ReadFrame calls returned are the payloads written,
\* in order; the reader has consumed exactly the frames it returned and no
\* byte of the next; and a ReadFrame call made while a written frame is
\* unread returns that frame's payload and no error.
C12_FramesInOrder ==
    /\ [](/\ Len(got) <= Len(written)
          /\ \A k \in 1..Len(got) : got[k] = written[k]
          /\ rd = Len(Concat([k \in 1..Len(got) |->
                                 putUvarint(Len(written[k])) \o written[k]]))
          /\ ferr \in {"", "EOF"})
    /\ [][(written' = written /\ Len(got) < Len(written))
            => (got' = Append(got, written[Len(got) + 1]) /\ ferr' = "")]_vars

\* C12 witness: three frames, the empty and the long payload among them,
\* have been written and then read back.
C12_Witness ==
    /\ Len(written) = MaxFrames
    /\ Len(got) = MaxFrames
    /\ \E k \in 1..MaxFrames : written[k] = <<>>
    /\ \E k \in 1..MaxFrames : Len(written[k]) >= 128

\* whether byte k of b belongs to a string literal: a double quote outside
\* comments and strings, the bytes after it, and its closing quote, the
\* first later quote not preceded by an odd run of backslashes inside the
\* literal.  lex is the lexical state before byte k: "n" outside, "s" in a
\* string, "e" after a backslash in a string, "/" after a slash outside,
\* "l" in a line comment, "b" in a block comment, "*" after a star in one.
RECURSIVE LexBefore(_, _)
LexBefore(b, k) ==
    IF k = 1 THEN "n"
    ELSE LET p == LexBefore(b, k - 1)
             c == b[k - 1]
         IN CASE p = "n" -> IF c = chQuote THEN "s" ELSE IF c = chSlash THEN "/" ELSE "n"
              [] p = "/" -> IF c = chSlash THEN "l" ELSE IF c = chStar THEN "b"
                            ELSE IF c = chQuote THEN "s" ELSE "n"
              [] p = "l" -> IF c = chLF \/ c = chCR THEN "n" ELSE "l"
              [] p = "b" -> IF c = chStar THEN "*" ELSE "b"
              [] p = "*" -> IF c = chSlash THEN "n" ELSE IF c = chStar THEN "*" ELSE "b"
              [] p = "s" -> IF c = chBackslash THEN "e" ELSE IF c = chQuote THEN "n" ELSE "s"
              [] p = "e" -> "s"

InStringLiteral(b, k) ==
    \/ LexBefore(b, k) \in {"s", "e"}
    \/ LexBefore(b, k) \in {"n", "/"} /\ b[k] = chQuote

ClosingQuote(b, k) == LexBefore(b, k) = "s" /\ b[k] = chQuote

\* byte k belongs to a string literal that has its closing quote
InClosedLiteral(b, k) ==
    /\ InStringLiteral(b, k)
    /\ \E j \in k..Len(b) :
          ClosingQuote(b, j) /\ \A m \in k..(j - 1) : ~ClosingQuote(b, m)

\* the indices of the bytes of b that the loop, from index k on in state st,
\* and the statements after it copy to out: an iteration appends nothing,
\* the byte it reads, or the pending slash and the byte it reads
RECURSIVE KeptFrom(_, _, _)
KeptFrom(b, k, st) ==
    IF k > Len(b) THEN (IF stripTail(st) = <<>> THEN {} ELSE {Len(b)})
    ELSE LET r == stripStep(st, b[k])
         IN (CASE Len(r.emit) = 0 -> {}
               [] Len(r.emit) = 1 -> {k}
               [] Len(r.emit) = 2 -> {k - 1, k})
            \cup KeptFrom(b, k + 1, r.state)

\* the bytes of b at the indices in K, in order
RECURSIVE Project(_, _, _)
Project(b, K, k) ==
    IF k > Len(b) THEN <<>>
    ELSE (IF k \in K THEN <<b[k]>> ELSE <<>>) \o Project(b, K, k + 1)

\* C13: the output is the input without the bytes the function dropped, and
\* no byte of a string literal, from its opening quote through its closing
\* quote, is among the dropped ones.
C13_StringsVerbatim ==
    stripDone =>
        /\ stripOut = Project(stripIn, KeptFrom(stripIn, 1, sNorm), 1)
        /\ \A k \in 1..Len(stripIn) :
              InClosedLiteral(stripIn, k) => k \in KeptFrom(stripIn, 1, sNorm)

\* C19: MarshalJSONCompat succeeds on every value, and parsing the text it
\* returned with UnmarshalJSONWithComments succeeds and stores a value
\* structurally equal to the one marshalled.
C19_JsonRoundTrip ==
    /\ (jpc \in {"marshalled", "parsed"} /\ jtext.err # "none") => jtext.err = ""
    /\ (jpc = "parsed" /\ jtext.err = "")
       => (jres.err = "" /\ StructEq(jres.val, jarg))

----------------------------------------------------------------------------
(* JOLT-SEC *)

\* lenbytes(b): the length of b as a uvarint, then b
LenBytes(b) == putUvarint(Len(b)) \o b

\* C18: every blob EncryptJOLT returns is JSEC, 0x01, then the length-
\* prefixed alg, kid, nonce, AAD and ciphertext in this order, the nonce of
\* the suite's nonce length, the AAD the bytes that were given to Seal as
\* additional data and the ciphertext what Seal returned
C18_BlobLayout ==
    (spc # "idle" /\ blob.err = "") =>
        \E s \in sealed :
            /\ blob.bytes = <<74, 83, 69, 67, 1>>
                            \o LenBytes(encArgs.hdr.Alg) \o LenBytes(encArgs.hdr.KeyID)
                            \o LenBytes(s.nonce) \o LenBytes(s.aad) \o LenBytes(s.ct)
            /\ Len(s.nonce) = suites[encArgs.hdr.Alg].nonceLen
            /\ Len(s.ct) = Len(s.pt) + tagLen

C18_Witness ==
    /\ spc = "sealed"
    /\ blob.err = ""
    /\ encArgs.hdr.Alg = AlgAES256GCM
    /\ encArgs.hdr.Extra.kv # <<>>
    /\ Len(blob.bytes) > 60

\* the entries of an extra map
ExtraEntries(e) == {<<e.kv[i].ek, e.kv[i].ev>> : i \in 1..Len(e.kv)}

KidPresent(kr, kid) == \E i \in 1..Len(kr) : kr[i].kid = kid

KeyOf(kr, kid) == kr[CHOOSE i \in 1..Len(kr) : kr[i].kid = kid].key

\* C14: a blob that EncryptJOLT returned, given to DecryptJOLT with the same
\* keyring, decrypts without error to a value equal to the sealed one and to
\* a header with the same alg, kid and extra
C14_SealOpenRoundTrip ==
    (spc = "opened" /\ decIn.bytes = blob.bytes /\ decIn.kr = encArgs.kr) =>
        /\ decOut.err = ""
        /\ StructEq(decOut.val, encArgs.v)
        /\ decOut.hdr.Alg = encArgs.hdr.Alg
        /\ decOut.hdr.KeyID = encArgs.hdr.KeyID
        /\ ExtraEntries(decOut.hdr.Extra) = ExtraEntries(encArgs.hdr.Extra)

\* C15: a blob with the content of one part replaced makes DecryptJOLT
\* return an error and no value
C15_TamperRejected ==
    (spc = "opened" /\ decIn.bytes # blob.bytes) =>
        /\ decOut.err \notin {"", "panic"}
        /\ decOut.val = VNull

\* C16: when the header in the additional data names another kid or alg
\* than the outer fields, DecryptJOLT fails with HeaderMismatch, whatever the
\* keyring holds, without a keyring lookup and without opening the AEAD
C16_HeaderMismatchFirst ==
    spc = "opened" =>
        LET f == jsecFields(decIn.bytes)
            h == headerFromJSON(f.aad)
        IN (/\ f.magic = <<74, 83, 69, 67>>
            /\ f.version = <<1>>
            /\ h.err = ""
            /\ (h.hdr.KeyID # f.kid \/ h.hdr.Alg # f.alg))
           => (decOut.err = "HeaderMismatch" /\ decOut.gets = 0 /\ decOut.opens = 0
               /\ decOut.val = VNull)

C16_Witness ==
    /\ spc = "opened"
    /\ decOut.err = "HeaderMismatch"
    /\ decIn.part = "kid"
    /\ decIn.how = "swap"
    /\ decIn.kr = encArgs.kr
    /\ Len(encArgs.kr) = 2

\* C17 as stated: EncryptJOLT fails with UnknownKey whenever the kid is not
\* in the keyring and with KeyLengthMismatch whenever the key found has not
\* the suite's key length, returning no blob and drawing no nonce
C17_KeyErrorsAnyAlg ==
    spc # "idle" =>
        /\ ~KidPresent(encArgs.kr, encArgs.hdr.KeyID) =>
               (blob.err = "UnknownKey" /\ blob.bytes = <<>> /\ drawn = 0)
        /\ (/\ KidPresent(encArgs.kr, encArgs.hdr.KeyID)
            /\ encArgs.hdr.Alg \in DOMAIN suites
            /\ Len(KeyOf(encArgs.kr, encArgs.hdr.KeyID)) # suites[encArgs.hdr.Alg].keyLen)
           => (blob.err = "KeyLengthMismatch" /\ blob.bytes = <<>> /\ drawn = 0)

\* C17 amended: for a header that names a registered suite, EncryptJOLT
\* fails with UnknownKey when the kid is not in the keyring and with
\* KeyLengthMismatch when the key found has not the suite's key length,
\* returning no blob and drawing no nonce
C17_KeyErrors ==
    (spc # "idle" /\ encArgs.hdr.Alg \in DOMAIN suites) =>
        /\ ~KidPresent(encArgs.kr, encArgs.hdr.KeyID) =>
               (blob.err = "UnknownKey" /\ blob.bytes = <<>> /\ drawn = 0 /\ sealed = {})
        /\ (/\ KidPresent(encArgs.kr, encArgs.hdr.KeyID)
            /\ Len(KeyOf(encArgs.kr, encArgs.hdr.KeyID)) # suites[encArgs.hdr.Alg].keyLen)
           => (blob.err = "KeyLengthMismatch" /\ blob.bytes = <<>> /\ drawn = 0
               /\ sealed = {})

C17_Witness ==
    /\ spc = "sealed"
    /\ blob.err = "UnknownKey"
    /\ encArgs.hdr.Alg \in DOMAIN suites
    /\ encArgs.hdr.KeyID = <<107, 50>>
    /\ Len(encArgs.kr) = 1

----------------------------------------------------------------------------
(* StripJSONComments against the lexical grammar of JSON with comments *)

\* b from position i on without its comments, mode being where position i
\* stands: "norm" outside strings and comments, "str" in a string literal,
\* "esc" after a backslash in one, "line" in a line comment, "block" in a
\* block comment
RECURSIVE WithoutComments(_, _, _)
WithoutComments(b, i, mode) ==
    IF i > Len(b) THEN <<>>
    ELSE CASE mode = "norm" ->
            IF b[i] = chQuote THEN <<b[i]>> \o WithoutComments(b, i + 1, "str")
            ELSE IF b[i] = chSlash /\ i < Len(b) /\ b[i + 1] = chSlash
                 THEN WithoutComments(b, i + 2, "line")
            ELSE IF b[i] = chSlash /\ i < Len(b) /\ b[i + 1] = chStar
                 THEN WithoutComments(b, i + 2, "block")
            ELSE <<b[i]>> \o WithoutComments(b, i + 1, "norm")
      [] mode = "str" ->
            <<b[i]>> \o WithoutComments(b, i + 1,
                            IF b[i] = chBackslash THEN "esc"
                            ELSE IF b[i] = chQuote THEN "norm" ELSE "str")
      [] mode = "esc" -> <<b[i]>> \o WithoutComments(b, i + 1, "str")
      [] mode = "line" ->
            IF b[i] = chLF \/ b[i] = chCR THEN WithoutComments(b, i, "norm")
            ELSE WithoutComments(b, i + 1, "line")
      [] mode = "block" ->
            IF b[i] = chStar /\ i < Len(b) /\ b[i + 1] = chSlash
            THEN WithoutComments(b, i + 2, "norm")
            ELSE WithoutComments(b, i + 1, "block")

\* C23: the output of StripJSONComments is the input with exactly its line
\* comments (up to, not including, the line end) and its block comments
\* (through the first */ or to the end of input) removed; a lone slash
\* outside strings, a trailing one included, is kept
C23_ExactlyCommentsRemoved ==
    stripDone => stripOut = WithoutComments(stripIn, 1, "norm")

\* C29: stripping the output again changes nothing, and the output is never
\* longer than the input
C29_StripIdempotent ==
    stripDone =>
        /\ StripJSONComments(stripOut) = stripOut
        /\ Len(stripOut) <= Len(stripIn)

C29_Witness ==
    /\ stripDone
    /\ Len(stripOut) < Len(stripIn)
    /\ stripOut # <<>>
    /\ \E i \in 1..Len(stripOut) : stripOut[i] = chSlash

----------------------------------------------------------------------------
(* JOLT-SEC: the additional data and the results of a failed DecryptJOLT *)

\* the member names of the object that the bytes b are the JSON text of
MemberNames(b) ==
    LET r == jsonUnmarshal(b)
    IN IF r.err = "" /\ r.val.t = "Obj" THEN {e.key : e \in Range(r.val.kv)} ELSE {}

\* C24: the additional data of every blob is the JSON text of an object with
\* the members alg, kid and extra, extra being an empty object when the
\* caller's header has none, and DecryptJOLT of such a blob returns a header
\* whose extra is an empty map that is not nil
C24_ExtraAlwaysPresent ==
    /\ (spc # "idle" /\ blob.err = "") =>
           \A s \in sealed : MemberNames(s.aad) = {sAlg, sKid, sExtra}
    /\ (/\ spc = "opened"
        /\ decIn.bytes = blob.bytes
        /\ decOut.err = ""
        /\ encArgs.hdr.Extra.kv = <<>>)
       => (~decOut.hdr.Extra.isnil /\ decOut.hdr.Extra.kv = <<>>)

\* C26: whenever DecryptJOLT returns an error, at whichever step, the value
\* it returns is nil and the header it returns is the zero Header
C26_NothingWithError ==
    (spc \in {"opened", "openedRaw"} /\ decOut.err \notin {"", "panic"}) =>
        (decOut.val = VNull /\ decOut.hdr = ZeroHeader)

----------------------------------------------------------------------------
(* Concurrent calls *)

\* C21: two calls of EncodeBinary on structurally equal inputs, made under
\* the same setting of the flag which nobody wrote while they ran, return the
\* same bytes, the bytes a call on its own returns
C21_ConcurrentEncodesAgree ==
    \A g, h \in Goroutines :
        (/\ thr[g].pc = "done" /\ thr[h].pc = "done"
         /\ ~thr[g].raced /\ ~thr[h].raced
         /\ thr[g].f0 = thr[h].f0
         /\ StructEq(thr[g].in, thr[h].in))
        => (/\ thr[g].out = thr[h].out
            /\ thr[g].out = EncodeBinary(thr[g].in, thr[g].f0))

\* C27: when a call of EncodeBinary has returned, with or without an error
\* and whatever the flag was, the argument holds what it held before
C27_ArgumentUnchanged ==
    \A g \in Goroutines : thr[g].pc = "done" => thr[g].after = thr[g].in

C27_Witness ==
    \E g \in Goroutines :
        /\ thr[g].pc = "done"
        /\ thr[g].out.err = ""
        /\ HasComment(thr[g].in)
        /\ thr[g].out.bytes = EncodeBinary(thr[g].in, FALSE).bytes
        /\ thr[g].out.bytes # EncodeBinary(thr[g].in, TRUE).bytes

\* C30: a call of EncodeBinary returns what it returns under one setting of
\* the flag, also when the flag is written while the call runs
C30_OneSettingPerCall ==
    \A g \in Goroutines :
        thr[g].pc = "done" =>
            thr[g].out \in {EncodeBinary(thr[g].in, TRUE), EncodeBinary(thr[g].in, FALSE)}

----------------------------------------------------------------------------
\* C28: DecodeBinary is total: on every input it returns a value or an error
\* and never crashes, whatever lengths and counts the input declares and
\* whatever the type of a Map's keys.
C28_DecodeNeverCrashes ==
    pc = "decoded" => res.err # "panic"

----------------------------------------------------------------------------
\* the number a decoded Int or Dec stands for equals the native number x
SameNumber(d, x) ==
    CASE x.t = "Float" -> d.t = "Int" /\ d.n = x.f
      [] x.t = "Frac" ->
            /\ d.t = "Dec"
            /\ d.neg = (x.num < 0)
            /\ d.exp <= 0
            /\ d.coeff * x.den = Abs(x.num) * Pow(10, -d.exp)
      [] x.t = "Int64" -> d.t = "Int" /\ d.n = x.n
      [] x.t = "Uint64" ->
            IF x.n > MaxInt64
            THEN d.t = "Dec" /\ ~d.neg /\ d.exp = 0 /\ d.coeff = x.n
            ELSE d.t = "Int" /\ d.n = x.n

\* C25: numeric coercion in EncodeBinary never changes the value: an
\* integer-valued float of any magnitude is encoded as the Int of that
\* value, a non-integer float as the Dec of its shortest decimal string, a
\* signed integer as the equal Int, an unsigned integer above the signed
\* maximum as the equal Dec.
C25_CoercionKeepsValue ==
    numPC = "done" =>
        /\ numOut.err = ""
        /\ \E d \in {DecodeBinary(numOut.bytes, FALSE)} :
              d.err = "" /\ SameNumber(d.val, numIn)

----------------------------------------------------------------------------
\* C22: a POST /orders request whose Content-Type is application/jolt-sec,
\* with a keyring configured, is handled by the JOLT-SEC branch: its body
\* goes to DecryptJOLT, the AAD binding is checked once it is decrypted, and
\* it never goes to DecodeBinary; application/json and application/jolt
\* requests reach their own branches.
C22_BranchPerContentType ==
    (req.method = sPOST) =>
        \E ct \in {ToLower(TrimSpace(req.ct))} :
            /\ (ct = mtJSEC /\ keyring # <<>>) =>
                  /\ resp.branch = "sec"
                  /\ "DecryptJOLT" \in resp.calls
                  /\ "DecodeBinary" \notin resp.calls
                  /\ resp.status \notin {400, -1} => "aadMatches" \in resp.calls
            /\ ct = mtJSON => resp.branch = "json"
            /\ ct \in {mtJOLT, mtJB} => resp.branch = "jolt"

====
